---------------------------- MODULE Spec2Model ----------------------------
(***************************************************************************)
(* NDI Bridge streaming plane: the 38-byte packet header codec, the        *)
(* fragmenting UDP sender, the per-media-type frame reassembler, the UDP   *)
(* receiver's packet processing, the bounded drop-oldest queues of the     *)
(* sender and receiver orchestrators and the receiver's path to the local  *)
(* sink.                                                                   *)
(*                                                                         *)
(* Unsigned integers wider than TLC's integers (uint32_t, uint64_t) are    *)
(* values written as base-256 numerals, most significant digit first.      *)
(* The bytes such a value occupies in memory depend on the byte order of   *)
(* the build (littleEndian): the codec and reassembler exercises cover     *)
(* both byte orders, the pipeline exercises run the little-endian build.   *)
(***************************************************************************)
EXTENDS Integers, Sequences, FiniteSets, TLC

VARIABLES
    littleEndian,   \* __BYTE_ORDER__ == __ORDER_LITTLE_ENDIAN__ in this build
    header,         \* codec exercise: the PacketHeader handed to serialize
    buffer,         \* codec exercise: the bytes serialize produced
    parsed,         \* codec exercise: what deserialize returned
    pc,             \* codec exercise: position of the exercise
    reassembler,    \* reassembler exercise: a FrameReassembler (pending_, stats_)
    pool,           \* reassembler exercise: the datagrams of frames A and B
    calls,          \* reassembler exercise: the datagrams passed to addPacket so far
    rets,           \* reassembler exercise: what each addPacket call returned
    prev,           \* reassembler exercise: the reassembler before the last call
    sender,         \* NetworkSender: config_, connected_, sequenceNumber_, stats_
    sent,           \* history: the sendVideo / sendAudio calls made, with their results
    channel,        \* the datagrams in flight between the two sockets
    net,            \* history: what the network did to the datagrams
    receiver,       \* NetworkReceiver: videoReassembler_, audioReassembler_, stats_
    datagram,       \* history: the datagram of the last processPacket call
    callbacks,      \* history: the frames passed to onVideoFrame_ / onAudioFrame_
    host,           \* HostMode: running_, frameQueue_ and its counters
    join,           \* JoinMode: running_, decodeQueue_, playout buffers, counters
    sink,           \* NDISender: the timestamps of the frames sent to the local sink
    now,            \* std::chrono::steady_clock, in microseconds
    hostLife,       \* HostMode start / stop: running_, encodeThread_, the stop() callers
    joinLife,       \* JoinMode start / stop: the running flags, the threads, the stop() callers
    threads,        \* threads inside a handler: their position and locals, and what they wrote
    encoder,        \* VideoEncoder: config_, configured_, forceNextKeyframe_, frameNumber_, stats_
    encoderCalls,   \* history: the calls made on the encoder since configure()
    emitted,        \* history: the last EncodedFrame and the packet it was built from
    decoder,        \* VideoDecoder: configured_, decoderReady_, sps_, pps_, stats_
    decoderCalls    \* history: the calls made on the decoder and what each did

codecVars == <<header, buffer, parsed, pc>>
reasmVars == <<reassembler, pool, calls, rets, prev>>
netVars == <<sender, sent, channel, net, receiver, datagram, callbacks>>
joinVars == <<join, sink, now>>
lifeVars == <<hostLife, joinLife, threads>>
encVars == <<encoder, encoderCalls, emitted>>
decVars == <<decoder, decoderCalls>>

vars == <<littleEndian, codecVars, reasmVars, netVars, host, joinVars, lifeVars, encVars, decVars>>

-----------------------------------------------------------------------------
(* Protocol constants, Protocol.h *)

PROTOCOL_MAGIC == <<78, 68, 73, 66>>      \* 0x4E444942 "NDIB"
PROTOCOL_VERSION == 2
HEADER_SIZE == 38
DEFAULT_MTU == 1200
MAX_UDP_PAYLOAD == DEFAULT_MTU - HEADER_SIZE
MAX_PACKET_SIZE == DEFAULT_MTU

Video == 0
Audio == 1

\* std::optional<T>: the empty sequence is std::nullopt, <<x>> holds x
nullopt == <<>>
Some(x) == <<x>>
has_value(o) == o # <<>>
value_of(o) == o[1]

Min(a, b) == IF a < b THEN a ELSE b

\* the elements of a sequence
Range(s) == {s[i] : i \in 1..Len(s)}

-----------------------------------------------------------------------------
(* Unsigned values as numerals *)

Reverse(s) == [i \in 1..Len(s) |-> s[Len(s) + 1 - i]]

RECURSIVE DigitsLE(_, _)
DigitsLE(v, n) == IF n = 0 THEN <<>> ELSE <<v % 256>> \o DigitsLE(v \div 256, n - 1)

\* static_cast<uintN_t>(v) for an n-byte type: the value v modulo 256^n
Num(v, n) == Reverse(DigitsLE(v, n))

RECURSIVE ToInt(_)
ToInt(num) == IF Len(num) = 0 THEN 0
              ELSE 256 * ToInt(SubSeq(num, 1, Len(num) - 1)) + num[Len(num)]

Zeros(n) == [i \in 1..n |-> 0]

-----------------------------------------------------------------------------
(* endian::hton16/32/64 and ntoh16/32/64, Protocol.h *)

bswap(value) == Reverse(value)

hton16(value) == IF littleEndian THEN bswap(value) ELSE value
hton32(value) == IF littleEndian THEN bswap(value) ELSE value
hton64_Identity(value) == value

hton64(value) == IF littleEndian THEN bswap(value) ELSE value

ntoh16_Identity(value) == value

ntoh16(value) == hton16(value)
ntoh32(value) == hton32(value)
ntoh64(value) == hton64(value)

\* The bytes of an integer object in memory, lowest address first, and back.
ObjectBytes(value) == IF littleEndian THEN Reverse(value) ELSE value
ObjectValue(bytes) == IF littleEndian THEN Reverse(bytes) ELSE bytes

\* std::memcpy(buffer + offset, src, Len(src)); std::memset is the same with a fill
memcpy(buf, offset, src) ==
    SubSeq(buf, 1, offset) \o src \o SubSeq(buf, offset + Len(src) + 1, Len(buf))

\* the n bytes at data + offset
BytesAt(data, offset, n) == SubSeq(data, offset + 1, offset + n)

-----------------------------------------------------------------------------
(* PacketHeader and its constructors *)

createVideoHeader(sequenceNumber, timestamp, totalSize, fragmentIndex, fragmentCount, payloadSize, isKeyframe) ==
    [magic |-> PROTOCOL_MAGIC, version |-> PROTOCOL_VERSION, mediaType |-> Video,
     sourceId |-> 0, flags |-> IF isKeyframe THEN 1 ELSE 0,
     sequenceNumber |-> sequenceNumber, timestamp |-> timestamp,
     totalSize |-> totalSize, fragmentIndex |-> fragmentIndex,
     fragmentCount |-> fragmentCount, payloadSize |-> payloadSize,
     sampleRate |-> Num(0, 4), channels |-> 0, reserved |-> Zeros(3)]

createAudioHeader(sequenceNumber, timestamp, totalSize, fragmentIndex, fragmentCount, payloadSize, sampleRate, channels) ==
    [magic |-> PROTOCOL_MAGIC, version |-> PROTOCOL_VERSION, mediaType |-> Audio,
     sourceId |-> 0, flags |-> 0,
     sequenceNumber |-> sequenceNumber, timestamp |-> timestamp,
     totalSize |-> totalSize, fragmentIndex |-> fragmentIndex,
     fragmentCount |-> fragmentCount, payloadSize |-> payloadSize,
     sampleRate |-> sampleRate, channels |-> channels, reserved |-> Zeros(3)]

isKeyframe(h) == (h.flags % 2) # 0
isVideo(h) == h.mediaType = Video

-----------------------------------------------------------------------------
(* Protocol::serializeInto, serialize, deserialize, isValid *)

serializeInto(h, buf) ==
    LET magic == hton32(h.magic)
        seqNum == hton32(h.sequenceNumber)
        timestamp == hton64(h.timestamp)
        totalSize == hton32(h.totalSize)
        fragIndex == hton16(h.fragmentIndex)
        fragCount == hton16(h.fragmentCount)
        payloadSize == hton16(h.payloadSize)
        sampleRate == hton32(h.sampleRate)
        b0 == memcpy(buf, 0, ObjectBytes(magic))
        b1 == memcpy(b0, 4, <<h.version>>)
        b2 == memcpy(b1, 5, <<h.mediaType>>)
        b3 == memcpy(b2, 6, <<h.sourceId>>)
        b4 == memcpy(b3, 7, <<h.flags>>)
        b5 == memcpy(b4, 8, ObjectBytes(seqNum))
        b6 == memcpy(b5, 12, ObjectBytes(timestamp))
        b7 == memcpy(b6, 20, ObjectBytes(totalSize))
        b8 == memcpy(b7, 24, ObjectBytes(fragIndex))
        b9 == memcpy(b8, 26, ObjectBytes(fragCount))
        b10 == memcpy(b9, 28, ObjectBytes(payloadSize))
        b11 == memcpy(b10, 30, ObjectBytes(sampleRate))
        b12 == memcpy(b11, 34, <<h.channels>>)
    IN  memcpy(b12, 35, Zeros(3))

serialize(h) == serializeInto(h, Zeros(HEADER_SIZE))

deserialize(data, size) ==
    IF size < HEADER_SIZE THEN nullopt
    ELSE LET magic == ntoh32(ObjectValue(BytesAt(data, 0, 4)))
             version == data[5]
         IN  IF magic # PROTOCOL_MAGIC THEN nullopt
             ELSE IF version # PROTOCOL_VERSION THEN nullopt
             ELSE Some([magic |-> magic, version |-> version,
                   mediaType |-> data[6], sourceId |-> data[7], flags |-> data[8],
                   sequenceNumber |-> ntoh32(ObjectValue(BytesAt(data, 8, 4))),
                   timestamp |-> ntoh64(ObjectValue(BytesAt(data, 12, 8))),
                   totalSize |-> ntoh32(ObjectValue(BytesAt(data, 20, 4))),
                   fragmentIndex |-> ntoh16(ObjectValue(BytesAt(data, 24, 2))),
                   fragmentCount |-> ntoh16(ObjectValue(BytesAt(data, 26, 2))),
                   payloadSize |-> ntoh16(ObjectValue(BytesAt(data, 28, 2))),
                   sampleRate |-> ntoh32(ObjectValue(BytesAt(data, 30, 4))),
                   channels |-> data[35], reserved |-> Zeros(3)])

isValid(h) ==
    /\ h.magic = PROTOCOL_MAGIC
    /\ h.version = PROTOCOL_VERSION
    /\ ToInt(h.fragmentIndex) < ToInt(h.fragmentCount)
    /\ ToInt(h.payloadSize) <= MAX_UDP_PAYLOAD

calculateFragmentCount(totalSize) ==
    ((totalSize + MAX_UDP_PAYLOAD - 1) \div MAX_UDP_PAYLOAD) % 65536

-----------------------------------------------------------------------------
(* NetworkSender: the datagram of fragment i of a frame, as the loops of   *)
(* sendVideo and sendAudio build it in `packet` and hand it to sendPacket. *)
(* A frame is [type, data, isKeyframe, timestamp, sampleRate, channels].   *)

FragmentPayloadSize(size, i) == Min(MAX_UDP_PAYLOAD, size - i * MAX_UDP_PAYLOAD)

VideoPacket(seqNum, frame, i, fragmentCount) ==
    LET size == Len(frame.data)
        offset == i * MAX_UDP_PAYLOAD
        payloadSize == FragmentPayloadSize(size, i)
        h == createVideoHeader(Num(seqNum, 4), frame.timestamp, Num(size, 4),
                               Num(i, 2), Num(fragmentCount, 2),
                               Num(payloadSize, 2), frame.isKeyframe)
    IN  serializeInto(h, Zeros(HEADER_SIZE)) \o BytesAt(frame.data, offset, payloadSize)

AudioPacket(seqNum, frame, i, fragmentCount) ==
    LET size == Len(frame.data)
        offset == i * MAX_UDP_PAYLOAD
        payloadSize == FragmentPayloadSize(size, i)
        h == createAudioHeader(Num(seqNum, 4), frame.timestamp, Num(size, 4),
                               Num(i, 2), Num(fragmentCount, 2),
                               Num(payloadSize, 2), frame.sampleRate, frame.channels)
    IN  serializeInto(h, Zeros(HEADER_SIZE)) \o BytesAt(frame.data, offset, payloadSize)

FramePacket(seqNum, frame, i, fragmentCount) ==
    IF frame.type = Video THEN VideoPacket(seqNum, frame, i, fragmentCount)
    ELSE AudioPacket(seqNum, frame, i, fragmentCount)

-----------------------------------------------------------------------------
(* FrameReassembler, Protocol.h / Protocol.cpp *)

NewStats ==
    [framesCompleted |-> 0, framesDropped |-> 0, packetsReceived |-> 0,
     packetsDuplicate |-> 0, totalFragmentsReceivedBeforeDrop |-> 0,
     totalFragmentsExpectedBeforeDrop |-> 0]

NewReassembler == [pending_ |-> nullopt, stats_ |-> NewStats]

NewPendingFrame(h) ==
    [type |-> h.mediaType, sequenceNumber |-> h.sequenceNumber,
     timestamp |-> h.timestamp, totalSize |-> h.totalSize,
     fragmentCount |-> h.fragmentCount, flags |-> h.flags,
     sampleRate |-> h.sampleRate, channels |-> h.channels,
     received |-> [i \in 1..ToInt(h.fragmentCount) |-> FALSE],
     data |-> Zeros(ToInt(h.totalSize)),
     receivedCount |-> 0]

CompletedFrame(pf) ==
    [type |-> pf.type, sequenceNumber |-> pf.sequenceNumber,
     timestamp |-> pf.timestamp, data |-> pf.data,
     isKeyframe |-> (pf.flags % 2) # 0,
     sampleRate |-> pf.sampleRate, channels |-> pf.channels]

\* the pending frame is dropped: stats_.framesDropped++ and the two totals
CountDrop_Swapped(stats, pf) ==
    [stats EXCEPT
       !.framesDropped = @ + 1,
       !.totalFragmentsReceivedBeforeDrop = @ + ToInt(pf.fragmentCount),
       !.totalFragmentsExpectedBeforeDrop = @ + pf.receivedCount]

CountDrop(stats, pf) ==
    [stats EXCEPT
       !.framesDropped = @ + 1,
       !.totalFragmentsReceivedBeforeDrop = @ + pf.receivedCount,
       !.totalFragmentsExpectedBeforeDrop = @ + ToInt(pf.fragmentCount)]

\* size_t offset = fragmentIndex * MAX_UDP_PAYLOAD
FragmentOffset_PacketStride(index) == index * MAX_PACKET_SIZE

FragmentOffset(index) == index * MAX_UDP_PAYLOAD

\* addPacket(header, payload, payloadSize) on reassembler r: the reassembler
\* after the call and the returned optional<Frame>.
addPacket(r, h, payload, payloadSize) ==
    LET s1 == [r.stats_ EXCEPT !.packetsReceived = @ + 1]
        startNew == \/ ~has_value(r.pending_)
                    \/ value_of(r.pending_).sequenceNumber # h.sequenceNumber
        dropOld == /\ startNew
                   /\ has_value(r.pending_)
                   /\ value_of(r.pending_).receivedCount
                        < ToInt(value_of(r.pending_).fragmentCount)
        s2 == IF dropOld THEN CountDrop(s1, value_of(r.pending_)) ELSE s1
        pf == IF startNew THEN NewPendingFrame(h) ELSE value_of(r.pending_)
        index == ToInt(h.fragmentIndex)
    IN  IF index >= ToInt(pf.fragmentCount)
        THEN [r |-> [pending_ |-> Some(pf), stats_ |-> s2], frame |-> nullopt]
        ELSE IF pf.received[index + 1]
        THEN [r |-> [pending_ |-> Some(pf),
                     stats_ |-> [s2 EXCEPT !.packetsDuplicate = @ + 1]],
              frame |-> nullopt]
        ELSE
          LET offset == FragmentOffset(index)
              copySize == Min(payloadSize, ToInt(h.payloadSize))
              pf2 == IF offset + copySize <= Len(pf.data)
                     THEN [pf EXCEPT
                             !.data = memcpy(@, offset, BytesAt(payload, 0, copySize)),
                             !.received[index + 1] = TRUE,
                             !.receivedCount = (@ + 1) % 65536]
                     ELSE pf
          IN  IF pf2.receivedCount = ToInt(pf2.fragmentCount)
              THEN [r |-> [pending_ |-> nullopt,
                           stats_ |-> [s2 EXCEPT !.framesCompleted = @ + 1]],
                    frame |-> Some(CompletedFrame(pf2))]
              ELSE [r |-> [pending_ |-> Some(pf2), stats_ |-> s2], frame |-> nullopt]


-----------------------------------------------------------------------------
(* Frames handed to the sender *)

FrameData(size, salt) == [k \in 1..size |-> ((7 * k + salt) % 255) + 1]

VideoFrame(size, salt, keyframe, ts) ==
    [type |-> Video, data |-> FrameData(size, salt), isKeyframe |-> keyframe,
     timestamp |-> Num(ts, 8), sampleRate |-> Num(0, 4), channels |-> 0]

AudioFrame(size, salt, ts) ==
    [type |-> Audio, data |-> FrameData(size, salt), isKeyframe |-> FALSE,
     timestamp |-> Num(ts, 8), sampleRate |-> Num(48000, 4), channels |-> 2]

\* the datagrams sendVideo / sendAudio emit for a frame when every send succeeds
FramePackets(seqNum, frame) ==
    LET fragmentCount == calculateFragmentCount(Len(frame.data))
    IN  [k \in 1..fragmentCount |-> FramePacket(seqNum, frame, k - 1, fragmentCount)]

-----------------------------------------------------------------------------
-----------------------------------------------------------------------------
(* uint64_t arithmetic on numerals (modulo 2^64), as JoinMode's play-time   *)
(* computation uses it                                                      *)

RECURSIVE AddDigits(_, _, _, _)
AddDigits(a, b, i, carry) ==
    IF i = 0 THEN <<>>
    ELSE LET s == a[i] + b[i] + carry
         IN  Append(AddDigits(a, b, i - 1, s \div 256), s % 256)

\* a + b
Add64(a, b) == AddDigits(a, b, 8, 0)

RECURSIVE SubDigits(_, _, _, _)
SubDigits(a, b, i, borrow) ==
    IF i = 0 THEN <<>>
    ELSE LET d == a[i] - b[i] - borrow
         IN  Append(SubDigits(a, b, i - 1, IF d < 0 THEN 1 ELSE 0), (d + 256) % 256)

\* a - b
Sub64(a, b) == SubDigits(a, b, 8, 0)

\* the first i digits of a divided by d: quotient digits and remainder
RECURSIVE DivDigits(_, _, _)
DivDigits(a, i, d) ==
    IF i = 0 THEN [q |-> <<>>, r |-> 0]
    ELSE LET p == DivDigits(a, i - 1, d)
             n == p.r * 256 + a[i]
         IN  [q |-> Append(p.q, n \div d), r |-> n % d]

\* a / d, for a small divisor d
Div64(a, d) == DivDigits(a, 8, d).q

\* a <= b
LessEq64(a, b) ==
    LET D == {i \in 1..8 : a[i] # b[i]}
    IN  \/ D = {}
        \/ LET m == CHOOSE i \in D : \A j \in D : i <= j IN a[m] < b[m]

-----------------------------------------------------------------------------
(* NetworkSender, NetworkSender.h / NetworkSender.cpp *)

\* NetworkSenderConfig::mtu as constructed
CONFIG_MTU == 1400

\* a NetworkSender as constructed.  openSockets counts the descriptors the
\* sender has opened and not closed; onConnected_ and onError_ hold the
\* arguments of the calls made to these callbacks.  packetsDroppedEagain is
\* the NetworkSenderStats member that HostMode::start logs.
NewSender(mtu) ==
    [config_ |-> [mtu |-> mtu],
     socket_ |-> -1,
     connected_ |-> FALSE,
     sequenceNumber_ |-> 0,
     stats_ |-> [bytesSent |-> 0, packetsSent |-> 0, framesSent |-> 0,
                 sendErrors |-> 0, packetsDroppedEagain |-> 0],
     openSockets |-> 0,
     onConnected_ |-> 0,
     onError_ |-> <<>>]

\* the descriptor socket() returns
SocketFd == 3

\* disconnect() that leaves the descriptor open
disconnect_KeepsSocket(s) == [s EXCEPT !.connected_ = FALSE]

\* NetworkSender::disconnect()
disconnect(s) ==
    LET s1 == IF s.socket_ >= 0
              THEN [s EXCEPT !.socket_ = -1, !.openSockets = @ - 1]
              ELSE s
    IN  [s1 EXCEPT !.connected_ = FALSE]

\* how connect(host, port) can go: every call succeeds, or socket(),
\* inet_pton() or ::connect() fails
ConnectOutcomes == {"ok", "socket", "inet_pton", "connect"}

\* NetworkSender::connect(host, port): the sender after the call and the
\* returned bool
connect(s, outcome) ==
    LET s0 == IF s.connected_ THEN disconnect(s) ELSE s
        opened == [s0 EXCEPT !.socket_ = SocketFd, !.openSockets = @ + 1]
        closed == [opened EXCEPT !.socket_ = -1, !.openSockets = @ - 1]
    IN  CASE outcome = "socket" ->
               [s |-> [s0 EXCEPT !.socket_ = -1,
                                 !.onError_ = Append(@, "Failed to create socket")],
                ok |-> FALSE]
          [] outcome = "inet_pton" ->
               [s |-> [closed EXCEPT !.onError_ = Append(@, "Invalid address")],
                ok |-> FALSE]
          [] outcome = "connect" ->
               [s |-> [closed EXCEPT !.onError_ = Append(@, "Failed to connect")],
                ok |-> FALSE]
          [] outcome = "ok" ->
               [s |-> [opened EXCEPT !.connected_ = TRUE, !.onConnected_ = @ + 1],
                ok |-> TRUE]

\* what send(socket_, data, size, MSG_DONTWAIT) can answer
SendOutcomes == {"sent", "EAGAIN", "error"}

\* sendPacket that counts the datagram although send() failed
sendPacket_CountsFailedSend(s, data, outcome) ==
    CASE outcome = "EAGAIN" -> [s |-> s, ok |-> TRUE, wire |-> <<>>]
      [] outcome = "error" ->
            [s |-> [s EXCEPT !.stats_.sendErrors = @ + 1,
                             !.stats_.packetsSent = @ + 1,
                             !.onError_ = Append(@, "Send error")],
             ok |-> FALSE, wire |-> <<>>]
      [] outcome = "sent" ->
            [s |-> [s EXCEPT !.stats_.bytesSent = @ + Len(data),
                             !.stats_.packetsSent = @ + 1],
             ok |-> TRUE, wire |-> <<data>>]

\* sendPacket(data, size) when send() answers `outcome`: the sender after
\* the call, the returned bool, and the datagram handed to the network, if any
sendPacket(s, data, outcome) ==
    CASE outcome = "EAGAIN" -> [s |-> s, ok |-> TRUE, wire |-> <<>>]
      [] outcome = "error" ->
            [s |-> [s EXCEPT !.stats_.sendErrors = @ + 1,
                             !.onError_ = Append(@, "Send error")],
             ok |-> FALSE, wire |-> <<>>]
      [] outcome = "sent" ->
            [s |-> [s EXCEPT !.stats_.bytesSent = @ + Len(data),
                             !.stats_.packetsSent = @ + 1],
             ok |-> TRUE, wire |-> <<data>>]

\* the fragment loop of sendVideo / sendAudio from fragment i on; outcomes[k]
\* is what send() answers for fragment k - 1
RECURSIVE sendLoop(_, _, _, _, _, _)
sendLoop(s, seqNum, frame, fragmentCount, i, outcomes) ==
    IF i >= fragmentCount
    THEN [s |-> [s EXCEPT !.stats_.framesSent = @ + 1], ok |-> TRUE, wire |-> <<>>]
    ELSE LET p == sendPacket(s, FramePacket(seqNum, frame, i, fragmentCount),
                             outcomes[i + 1])
         IN  IF ~p.ok THEN p
             ELSE LET rest == sendLoop(p.s, seqNum, frame, fragmentCount, i + 1,
                                       outcomes)
                  IN  [rest EXCEPT !.wire = p.wire \o @]

sendFrame(s, frame, outcomes) ==
    IF ~s.connected_ THEN [s |-> s, ok |-> FALSE, wire |-> <<>>]
    ELSE LET fragmentCount == calculateFragmentCount(Len(frame.data))
             seqNum == s.sequenceNumber_ + 1
         IN  sendLoop([s EXCEPT !.sequenceNumber_ = seqNum], seqNum, frame,
                      fragmentCount, 0, outcomes)

sendVideo(s, frame, outcomes) == sendFrame(s, frame, outcomes)

sendAudio(s, frame, outcomes) == sendFrame(s, frame, outcomes)

\* ++sequenceNumber_ that leaves the counter where it is
PreIncrement32_Stuck(a) == a

\* ++sequenceNumber_ on std::atomic<uint32_t>, one indivisible step: the
\* counter after the increment (which is also the value of the expression),
\* modulo 2^32
PreIncrement32(a) == AddDigits(a, Num(1, 4), 4, 0)

\* the datagram of fragment i of a frame whose sequence number is given at
\* its width, as the loops of sendVideo and sendAudio build it
SequencedPacket(seqNum, frame, i, fragmentCount) ==
    LET size == Len(frame.data)
        offset == i * MAX_UDP_PAYLOAD
        payloadSize == FragmentPayloadSize(size, i)
        h == IF frame.type = Video
             THEN createVideoHeader(seqNum, frame.timestamp, Num(size, 4), Num(i, 2),
                                    Num(fragmentCount, 2), Num(payloadSize, 2),
                                    frame.isKeyframe)
             ELSE createAudioHeader(seqNum, frame.timestamp, Num(size, 4), Num(i, 2),
                                    Num(fragmentCount, 2), Num(payloadSize, 2),
                                    frame.sampleRate, frame.channels)
    IN  serializeInto(h, Zeros(HEADER_SIZE)) \o BytesAt(frame.data, offset, payloadSize)

\* the fragment loop of sendVideo / sendAudio for a frame given by its size
\* alone, every send() accepted: each datagram as its header, the offset of
\* its payload in the frame, and the length handed to sendPacket
RECURSIVE sizedLoop(_, _, _, _, _)
sizedLoop(seqNum, frame, size, fragmentCount, i) ==
    IF i >= fragmentCount THEN <<>>
    ELSE LET offset == i * MAX_UDP_PAYLOAD
             payloadSize == Min(MAX_UDP_PAYLOAD, size - offset)
             h == IF frame.type = Video
                  THEN createVideoHeader(Num(seqNum, 4), frame.timestamp, Num(size, 4),
                                         Num(i, 2), Num(fragmentCount, 2),
                                         Num(payloadSize % 65536, 2), frame.isKeyframe)
                  ELSE createAudioHeader(Num(seqNum, 4), frame.timestamp, Num(size, 4),
                                         Num(i, 2), Num(fragmentCount, 2),
                                         Num(payloadSize % 65536, 2),
                                         frame.sampleRate, frame.channels)
         IN  <<[header |-> serialize(h), offset |-> offset,
                size |-> HEADER_SIZE + payloadSize]>>
                \o sizedLoop(seqNum, frame, size, fragmentCount, i + 1)

\* what the sendPacket calls of one frame add to stats_.bytesSent
RECURSIVE wireBytes(_)
wireBytes(wire) == IF wire = <<>> THEN 0 ELSE Head(wire).size + wireBytes(Tail(wire))

\* sendVideo / sendAudio(data, size, ...) on a frame given by its size
sendSized(s, frame, size) ==
    IF ~s.connected_ THEN [s |-> s, ok |-> FALSE, wire |-> <<>>]
    ELSE LET fragmentCount == calculateFragmentCount(size)
             seqNum == s.sequenceNumber_ + 1
             wire == sizedLoop(seqNum, frame, size, fragmentCount, 0)
         IN  [s |-> [s EXCEPT !.sequenceNumber_ = seqNum,
                              !.stats_.packetsSent = @ + Len(wire),
                              !.stats_.bytesSent = @ + wireBytes(wire),
                              !.stats_.framesSent = @ + 1],
              ok |-> TRUE, wire |-> wire]

-----------------------------------------------------------------------------
(* NetworkReceiver, NetworkReceiver.h / NetworkReceiver.cpp *)

NewReceiverStats ==
    [bytesReceived |-> 0, packetsReceived |-> 0, videoFramesReceived |-> 0,
     audioFramesReceived |-> 0, framesDropped |-> 0, invalidPackets |-> 0,
     latencySumMs |-> 0, latencyCount |-> 0]

NewReceiver ==
    [videoReassembler_ |-> NewReassembler, audioReassembler_ |-> NewReassembler,
     stats_ |-> NewReceiverStats]

\* header.sendTimestamp, which processPacket reads: the values a datagram
\* can carry in it
SendTimestamps == {0, 1}

\* the wall clock readings, in ns, receiveLoop passes as recvTimestampNs
RecvTimestamps == {7000000}

\* the latency measurement of processPacket
MeasureLatency(stats, h, sendTimestamp, recvTimestampNs) ==
    IF sendTimestamp > 0 /\ ToInt(h.fragmentIndex) = 0
    THEN [stats EXCEPT !.latencySumMs = @ + (recvTimestampNs - sendTimestamp) \div 1000000,
                       !.latencyCount = @ + 1]
    ELSE stats

\* the ReceivedVideoFrame / ReceivedAudioFrame built from a completed Frame
\* a ReceivedVideoFrame whose isKeyframe member keeps its default
ReceivedVideoFrame_NoKeyframe(frame) ==
    [data |-> frame.data, timestamp |-> frame.timestamp,
     isKeyframe |-> FALSE, sequenceNumber |-> frame.sequenceNumber]

ReceivedVideoFrame(frame) ==
    [data |-> frame.data, timestamp |-> frame.timestamp,
     isKeyframe |-> frame.isKeyframe, sequenceNumber |-> frame.sequenceNumber]

ReceivedAudioFrame(frame) ==
    [data |-> frame.data, timestamp |-> frame.timestamp,
     sampleRate |-> frame.sampleRate, channels |-> frame.channels,
     sequenceNumber |-> frame.sequenceNumber]

\* processPacket with one reassembler for both media types
processPacket_OneReassembler(rx, data, size, sendTimestamp, recvTimestampNs) ==
    LET s1 == [rx.stats_ EXCEPT !.packetsReceived = @ + 1,
                                !.bytesReceived = @ + size]
        headerOpt == deserialize(data, size)
    IN  IF ~has_value(headerOpt)
        THEN [rx |-> [rx EXCEPT !.stats_ = [s1 EXCEPT !.invalidPackets = @ + 1]],
              video |-> nullopt, audio |-> nullopt]
        ELSE
          LET h == value_of(headerOpt)
              s2 == MeasureLatency(s1, h, sendTimestamp, recvTimestampNs)
          IN  IF ~isValid(h)
              THEN [rx |-> [rx EXCEPT !.stats_ = [s2 EXCEPT !.invalidPackets = @ + 1]],
                    video |-> nullopt, audio |-> nullopt]
              ELSE
                LET payloadSize == size - HEADER_SIZE
                    payload == BytesAt(data, HEADER_SIZE, payloadSize)
                    res == addPacket(rx.videoReassembler_, h, payload, payloadSize)
                    rv == res.r
                    ra == rx.audioReassembler_
                    toVideo == has_value(res.frame) /\ value_of(res.frame).type = Video
                    toAudio == has_value(res.frame) /\ value_of(res.frame).type # Video
                    s3 == [s2 EXCEPT
                             !.videoFramesReceived = IF toVideo THEN @ + 1 ELSE @,
                             !.audioFramesReceived = IF toAudio THEN @ + 1 ELSE @,
                             !.framesDropped = rv.stats_.framesDropped
                                                 + ra.stats_.framesDropped]
                IN  [rx |-> [videoReassembler_ |-> rv, audioReassembler_ |-> ra,
                             stats_ |-> s3],
                     video |-> IF toVideo
                               THEN Some(ReceivedVideoFrame(value_of(res.frame)))
                               ELSE nullopt,
                     audio |-> IF toAudio
                               THEN Some(ReceivedAudioFrame(value_of(res.frame)))
                               ELSE nullopt]

\* processPacket(data, size, recvTimestampNs) on receiver rx: the receiver
\* after the call and the frame passed to onVideoFrame_ / onAudioFrame_, if any
processPacket(rx, data, size, sendTimestamp, recvTimestampNs) ==
    LET s1 == [rx.stats_ EXCEPT !.packetsReceived = @ + 1,
                                !.bytesReceived = @ + size]
        headerOpt == deserialize(data, size)
    IN  IF ~has_value(headerOpt)
        THEN [rx |-> [rx EXCEPT !.stats_ = [s1 EXCEPT !.invalidPackets = @ + 1]],
              video |-> nullopt, audio |-> nullopt]
        ELSE
          LET h == value_of(headerOpt)
              s2 == MeasureLatency(s1, h, sendTimestamp, recvTimestampNs)
          IN  IF ~isValid(h)
              THEN [rx |-> [rx EXCEPT !.stats_ = [s2 EXCEPT !.invalidPackets = @ + 1]],
                    video |-> nullopt, audio |-> nullopt]
              ELSE
                LET payloadSize == size - HEADER_SIZE
                    payload == BytesAt(data, HEADER_SIZE, payloadSize)
                    res == addPacket(IF isVideo(h) THEN rx.videoReassembler_
                                     ELSE rx.audioReassembler_,
                                     h, payload, payloadSize)
                    rv == IF isVideo(h) THEN res.r ELSE rx.videoReassembler_
                    ra == IF isVideo(h) THEN rx.audioReassembler_ ELSE res.r
                    toVideo == has_value(res.frame) /\ value_of(res.frame).type = Video
                    toAudio == has_value(res.frame) /\ value_of(res.frame).type # Video
                    s3 == [s2 EXCEPT
                             !.videoFramesReceived = IF toVideo THEN @ + 1 ELSE @,
                             !.audioFramesReceived = IF toAudio THEN @ + 1 ELSE @,
                             !.framesDropped = rv.stats_.framesDropped
                                                 + ra.stats_.framesDropped]
                IN  [rx |-> [videoReassembler_ |-> rv, audioReassembler_ |-> ra,
                             stats_ |-> s3],
                     video |-> IF toVideo
                               THEN Some(ReceivedVideoFrame(value_of(res.frame)))
                               ELSE nullopt,
                     audio |-> IF toAudio
                               THEN Some(ReceivedAudioFrame(value_of(res.frame)))
                               ELSE nullopt]

-----------------------------------------------------------------------------
(* HostMode, HostMode.h / HostMode.cpp: the encode queue *)

MAX_QUEUE_SIZE == 3

NewHostMode ==
    [running_ |-> FALSE, encoderConfigured_ |-> FALSE, frameQueue_ |-> <<>>,
     videoFramesReceived_ |-> 0, videoFramesEncoded_ |-> 0,
     videoFramesDropped_ |-> 0]

\* a callback that drops the oldest frame of a full queue without counting it
HostMode_onVideoFrame_DropUncounted(h, frame) ==
    LET full == Len(h.frameQueue_) >= MAX_QUEUE_SIZE
    IN  [h EXCEPT
           !.videoFramesReceived_ = @ + 1,
           !.frameQueue_ = Append(IF full THEN Tail(@) ELSE @, frame)]

\* HostMode::onVideoFrame(frame)
HostMode_onVideoFrame(h, frame) ==
    LET full == Len(h.frameQueue_) >= MAX_QUEUE_SIZE
    IN  [h EXCEPT
           !.videoFramesReceived_ = @ + 1,
           !.videoFramesDropped_ = IF full THEN @ + 1 ELSE @,
           !.frameQueue_ = Append(IF full THEN Tail(@) ELSE @, frame)]

-----------------------------------------------------------------------------
(* JoinMode, JoinMode.h / JoinMode.cpp: the decode queue, the playout      *)
(* buffers and the output to the local sink                                *)

MAX_DECODE_QUEUE == 90

NewJoinMode(bufferMs) ==
    [config_ |-> [bufferMs |-> bufferMs],
     running_ |-> FALSE,
     decoder_ |-> FALSE,          \* decoder_ != nullptr
     ndiSender_ |-> FALSE,        \* ndiSender_ && ndiSender_->isRunning()
     decodeQueue_ |-> <<>>, videoBuffer_ |-> <<>>, audioBuffer_ |-> <<>>,
     bufferSynced_ |-> FALSE,
     firstFrameTimestamp_ |-> Num(0, 8), bufferStartTime_ |-> Num(0, 8),
     videoFramesReceived_ |-> 0, audioFramesReceived_ |-> 0,
     videoFramesDecoded_ |-> 0, videoFramesOutput_ |-> 0,
     audioFramesOutput_ |-> 0, videoFramesDroppedQueue_ |-> 0,
     decodeCount_ |-> 0]

NewSink == [video |-> <<>>, audio |-> <<>>]

\* JoinMode::onVideoFrame(frame), when a full queue loses the arriving frame
JoinMode_onVideoFrame_DropNewest(j, frame) ==
    LET full == Len(j.decodeQueue_) >= MAX_DECODE_QUEUE
    IN  [j EXCEPT
           !.videoFramesReceived_ = @ + 1,
           !.videoFramesDroppedQueue_ = IF full THEN @ + 1 ELSE @,
           !.decodeQueue_ = IF full THEN @ ELSE Append(@, frame)]

\* JoinMode::onVideoFrame(frame)
JoinMode_onVideoFrame(j, frame) ==
    LET full == Len(j.decodeQueue_) >= MAX_DECODE_QUEUE
    IN  [j EXCEPT
           !.videoFramesReceived_ = @ + 1,
           !.videoFramesDroppedQueue_ = IF full THEN @ + 1 ELSE @,
           !.decodeQueue_ = Append(IF full THEN Tail(@) ELSE @, frame)]

\* the first frame of either type fixes the playout origin
SyncBuffer(j, timestamp, clock) ==
    IF ~j.bufferSynced_ /\ j.firstFrameTimestamp_ = Num(0, 8)
    THEN [j EXCEPT !.firstFrameTimestamp_ = timestamp,
                   !.bufferStartTime_ = clock,
                   !.bufferSynced_ = TRUE]
    ELSE j

\* buffered.playTime, for a join that is synced
PlayTime(j, timestamp) ==
    LET relativeTime == Div64(Sub64(timestamp, j.firstFrameTimestamp_), 10)
    IN  Add64(Add64(j.bufferStartTime_, relativeTime),
              Num(j.config_.bufferMs * 1000, 8))

\* JoinMode::onAudioFrame(frame) when steady_clock reads `clock`: the join
\* and the sink after the call
JoinMode_onAudioFrame(j, snk, frame, clock) ==
    LET j1 == [j EXCEPT !.audioFramesReceived_ = @ + 1]
    IN  IF ~j.ndiSender_ THEN [join |-> j1, sink |-> snk]
        ELSE IF j.config_.bufferMs > 0
        THEN LET j2 == SyncBuffer(j1, frame.timestamp, clock)
                 buffered == [timestamp |-> frame.timestamp,
                              playTime |-> PlayTime(j2, frame.timestamp)]
             IN  [join |-> [j2 EXCEPT !.audioBuffer_ = Append(@, buffered)],
                  sink |-> snk]
        ELSE [join |-> [j1 EXCEPT !.audioFramesOutput_ = @ + 1],
              sink |-> [snk EXCEPT !.audio = Append(@, frame.timestamp)]]

\* JoinMode::onDecodedFrame(frame) when steady_clock reads `clock`
JoinMode_onDecodedFrame(j, snk, frame, clock) ==
    LET j1 == [j EXCEPT !.videoFramesDecoded_ = @ + 1]
    IN  IF ~j.ndiSender_ THEN [join |-> j1, sink |-> snk]
        ELSE IF j.config_.bufferMs > 0
        THEN LET j2 == SyncBuffer(j1, frame.timestamp, clock)
                 buffered == [timestamp |-> frame.timestamp,
                              playTime |-> PlayTime(j2, frame.timestamp)]
             IN  [join |-> [j2 EXCEPT !.videoBuffer_ = Append(@, buffered)],
                  sink |-> snk]
        ELSE [join |-> [j1 EXCEPT !.videoFramesOutput_ = @ + 1],
              sink |-> [snk EXCEPT !.video = Append(@, frame.timestamp)]]

\* how many frames at the head of a playout buffer are due at `clock`: the
\* loop stops at the first frame that is not
RECURSIVE DueCount(_, _)
DueCount(buf, clock) ==
    IF buf # <<>> /\ LessEq64(buf[1].playTime, clock)
    THEN 1 + DueCount(Tail(buf), clock)
    ELSE 0

\* JoinMode::processBufferedFrames() when steady_clock reads `clock`
JoinMode_processBufferedFrames(j, snk, clock) ==
    LET nv == DueCount(j.videoBuffer_, clock)
        na == DueCount(j.audioBuffer_, clock)
        played(buf, n) == [k \in 1..n |-> buf[k].timestamp]
    IN  [join |-> [j EXCEPT
                     !.videoBuffer_ = SubSeq(@, nv + 1, Len(@)),
                     !.audioBuffer_ = SubSeq(@, na + 1, Len(@)),
                     !.videoFramesOutput_ = IF j.ndiSender_ THEN @ + nv ELSE @,
                     !.audioFramesOutput_ = IF j.ndiSender_ THEN @ + na ELSE @],
         sink |-> IF j.ndiSender_
                  THEN [video |-> snk.video \o played(j.videoBuffer_, nv),
                        audio |-> snk.audio \o played(j.audioBuffer_, na)]
                  ELSE snk]

-----------------------------------------------------------------------------
(* Start and stop of the two modes: the threads they own, and the callers  *)
(* of stop().                                                              *)

\* who calls stop(): the exit path of start() on the pipeline thread,
\* BridgeManager::stopPipeline / stopAll, and the destructor
Callers == {"start", "manager", "destructor"}

\* compare_exchange_strong that always reports success
compare_exchange_strong_AlwaysSucceeds(a, expected, desired) == [a |-> desired, ok |-> TRUE]

\* std::atomic<bool>::compare_exchange_strong(expected, desired): the value
\* of the atomic after the call and the returned bool
compare_exchange_strong(a, expected, desired) == [a |-> IF a = expected THEN desired ELSE a, ok |-> a = expected]

\* a HostMode as constructed.  start is the position of start() on the
\* pipeline thread, encodeThread the position of encodeLoop, stop the
\* position of each caller inside stop(); frameQueue_ is the number of
\* queued frames.  stopCalls and joins are history: the stop() calls made
\* (who, whether the call entered the teardown, what it touched) and the
\* callers of encodeThread_.join().
NewHostLife ==
    [running_ |-> FALSE,
     start |-> "idle",
     encodeThread |-> "unborn",
     joinable |-> FALSE,
     frameQueue_ |-> 0,
     receiving |-> FALSE,
     captured |-> 0,
     stop |-> [c \in Callers |-> "idle"],
     stopCalls |-> <<>>,
     joins |-> <<>>]

\* the stop() calls made by caller c, as indices of stopCalls
CallsBy(L, c) == {k \in 1..Len(L.stopCalls) : L.stopCalls[k].by = c}

\* the stop() call caller c is in, or has made last
CurrentCall(L, c) == CHOOSE k \in CallsBy(L, c) : \A m \in CallsBy(L, c) : m <= k

\* caller c enters stop()
EnterStop(L, c, first) ==
    [L EXCEPT !.stop[c] = first,
              !.stopCalls = Append(@, [by |-> c, won |-> FALSE, touched |-> {}])]

\* the current stop() call of caller c uses a member
Touch(L, c, member) ==
    [L EXCEPT !.stopCalls[CurrentCall(L, c)].touched = @ \cup {member}]

\* a NetworkReceiver as constructed: the flags of its receive thread, the
\* socket, the position of receiveLoop; received, errors and processed are
\* history (datagrams read, failures of poll / recvfrom, processPacket calls)
NewReceiverLife ==
    [listening_ |-> FALSE,
     shouldStop_ |-> FALSE,
     socket_ |-> -1,
     receiveThread |-> "unborn",
     joinable |-> FALSE,
     errors |-> 0,
     processed |-> 0,
     joins |-> <<>>]

\* a JoinMode as constructed, in the same terms: the three running flags,
\* the decode thread and the playout thread, the number of frames in
\* decodeQueue_, the network receiver, and the callers of the join() calls
NewJoinLife ==
    [config_ |-> [bufferMs |-> 0],
     running_ |-> FALSE,
     bufferRunning_ |-> FALSE,
     decodeRunning_ |-> FALSE,
     start |-> "idle",
     decodeThread |-> "unborn",
     bufferThread |-> "unborn",
     decodeJoinable |-> FALSE,
     bufferJoinable |-> FALSE,
     decodeQueue_ |-> 0,
     networkReceiver_ |-> NewReceiverLife,
     stop |-> [c \in Callers |-> "idle"],
     stopCalls |-> <<>>,
     joinsDecode |-> <<>>,
     joinsBuffer |-> <<>>]

-----------------------------------------------------------------------------
(* VideoEncoder: the keyframe request of encodeWithStride and the Annex-B  *)
(* conversion of processEncodedPacket.  The codec behind avcodec_send_frame *)
(* and avcodec_receive_packet is a black box that returns packets.         *)

StartCode4 == <<0, 0, 0, 1>>
StartCode3 == <<0, 0, 1>>

\* no codec is open
NoCodec == [extradata |-> <<>>, form |-> "none", sliceSize |-> 0]

\* a VideoEncoder as constructed.  codecCtx_ is the opened codec: its
\* extradata, the form of the packets it returns, and the size of the slice
\* NAL unit the pictures of the exercise encode to
NewEncoder ==
    [config_ |-> [keyframeInterval |-> 60],
     configured_ |-> FALSE,
     forceNextKeyframe_ |-> FALSE,
     frameNumber_ |-> 0,
     codecCtx_ |-> NoCodec,
     stats_ |-> [framesEncoded |-> 0, bytesEncoded |-> 0, keyframesEncoded |-> 0]]

\* VideoEncoder::cleanup
cleanup(e) ==
    [e EXCEPT !.configured_ = FALSE, !.frameNumber_ = 0, !.codecCtx_ = NoCodec,
              !.stats_ = [framesEncoded |-> 0, bytesEncoded |-> 0, keyframesEncoded |-> 0]]

\* VideoEncoder::configure(config): initEncoder / initScaler succeed (ok)
\* and open the given codec, or one of them fails
configure(e, keyframeInterval, codec, ok) ==
    LET e1 == [cleanup(e) EXCEPT !.config_.keyframeInterval = keyframeInterval]
    IN  IF ok
        THEN [e1 EXCEPT !.codecCtx_ = codec, !.configured_ = TRUE]
        ELSE e1

\* VideoEncoder::forceKeyframe
forceKeyframe(e) == [e EXCEPT !.forceNextKeyframe_ = TRUE]

\* VideoEncoder::reset
reset(e) == [e EXCEPT !.frameNumber_ = 0, !.forceNextKeyframe_ = TRUE]

\* the keyframe request that ignores keyframeInterval
KeyframeRequested_FirstOnly(e) == e.forceNextKeyframe_ \/ e.frameNumber_ = 0

\* encodeWithStride: does the frame get pict_type = AV_PICTURE_TYPE_I
KeyframeRequested(e) ==
    \/ e.forceNextKeyframe_
    \/ e.frameNumber_ = 0
    \/ (e.config_.keyframeInterval > 0 /\ e.frameNumber_ % e.config_.keyframeInterval = 0)

\* encodeWithStride from the keyframe decision to avcodec_send_frame
requestFrame(e) ==
    [e EXCEPT !.forceNextKeyframe_ = IF KeyframeRequested(e) THEN FALSE ELSE @,
              !.frameNumber_ = @ + 1]

\* (extra[offset] << 8) | extra[offset + 1]
Length16(data, offset) == data[offset + 1] * 256 + data[offset + 2]

\* the 4-byte big-endian NAL unit length at data[offset]; the packets of the
\* exercise keep it below 2^24
Length32(data, offset) ==
    ((data[offset + 1] * 256 + data[offset + 2]) * 256 + data[offset + 3]) * 256
        + data[offset + 4]

\* processEncodedPacket: one of its two loops over the parameter sets of an
\* AVCC extradata; i counts the sets still announced
RECURSIVE extractSets(_, _, _, _)
extractSets(extra, i, offset, out) ==
    IF ~(i > 0 /\ offset + 2 < Len(extra))
    THEN [out |-> out, offset |-> offset]
    ELSE LET len == Length16(extra, offset)
             at == offset + 2
         IN  IF at + len <= Len(extra)
             THEN extractSets(extra, i - 1, at + len,
                              out \o StartCode4 \o BytesAt(extra, at, len))
             ELSE extractSets(extra, i - 1, at, out)

\* processEncodedPacket: SPS / PPS of the extradata in Annex-B form
prependParameterSets(extra) ==
    LET extraSize == Len(extra)
    IN  IF extraSize > 7 /\ extra[1] = 1
        THEN LET sps == extractSets(extra, extra[6] % 32, 6, <<>>)
             IN  IF sps.offset < extraSize
                 THEN extractSets(extra, extra[sps.offset + 1], sps.offset + 1, sps.out).out
                 ELSE sps.out
        ELSE IF /\ extraSize >= 4 /\ extra[1] = 0 /\ extra[2] = 0
                /\ (extra[3] = 1 \/ (extra[3] = 0 /\ extra[4] = 1))
             THEN extra
             ELSE <<>>

\* processEncodedPacket: the test it applies to the packet data
isAnnexB(data) ==
    /\ Len(data) >= 4 /\ data[1] = 0 /\ data[2] = 0
    /\ (data[3] = 1 \/ (data[3] = 0 /\ data[4] = 1))

\* processEncodedPacket: the loop over a length-prefixed packet
RECURSIVE convertAvcc(_, _, _)
convertAvcc(data, offset, out) ==
    IF ~(offset + 4 <= Len(data))
    THEN out
    ELSE LET nalLen == Length32(data, offset)
             at == offset + 4
         IN  IF at + nalLen > Len(data)
             THEN out
             ELSE convertAvcc(data, at + nalLen, out \o StartCode4 \o BytesAt(data, at, nalLen))

\* processEncodedPacket: the bytes of the EncodedFrame built from a packet
toAnnexB(extra, packet) ==
    (IF (packet.key /\ Len(extra) > 0) THEN prependParameterSets(extra) ELSE <<>>)
       \o (IF isAnnexB(packet.data) THEN packet.data ELSE convertAvcc(packet.data, 0, <<>>))

\* VideoEncoder::processEncodedPacket(packet): the encoder after the call
\* and the EncodedFrame passed to onEncodedFrame_
processEncodedPacket(e, packet) ==
    LET annexBData == toAnnexB(e.codecCtx_.extradata, packet)
    IN  [e |-> [e EXCEPT !.stats_.framesEncoded = @ + 1,
                         !.stats_.bytesEncoded = @ + Len(annexBData),
                         !.stats_.keyframesEncoded = IF packet.key THEN @ + 1 ELSE @],
         frame |-> [data |-> annexBData, isKeyframe |-> packet.key,
                    timestamp |-> packet.pts]]

-----------------------------------------------------------------------------
(* VideoDecoder: the NAL unit parser and the readiness test of decode.     *)
(* The codec behind avcodec_send_packet and avcodec_receive_frame is a     *)
(* black box that takes a packet and returns a frame, nothing, or an error *)

NAL_TYPE_IDR == 5
NAL_TYPE_SPS == 7
NAL_TYPE_PPS == 8

\* a VideoDecoder as constructed
NewDecoder ==
    [configured_ |-> FALSE, decoderReady_ |-> FALSE, sps_ |-> <<>>, pps_ |-> <<>>,
     stats_ |-> [framesDecoded |-> 0, keyframesDecoded |-> 0, decodeErrors |-> 0]]

\* VideoDecoder::cleanup
VideoDecoder_cleanup(d) == NewDecoder

\* VideoDecoder::configure(config): initDecoder succeeds (ok) or fails
VideoDecoder_configure(d, ok) ==
    [VideoDecoder_cleanup(d) EXCEPT !.configured_ = ok]

\* VideoDecoder::reset
VideoDecoder_reset(d) ==
    [d EXCEPT !.sps_ = <<>>, !.pps_ = <<>>, !.decoderReady_ = FALSE]

\* a NALUnit: where its bytes start in the buffer, their number, and
\* data[nalStart] & 0x1F
NALUnit(data, nalStart, size) ==
    [offset |-> nalStart, size |-> size, type |-> data[nalStart + 1] % 32]

\* the start code length parseNALUnits finds at data[i], or 0
startCodeLen(data, i) ==
    IF ~(data[i + 1] = 0 /\ data[i + 2] = 0) THEN 0
    ELSE IF data[i + 3] = 1 THEN 3
    ELSE IF i + 3 < Len(data) /\ data[i + 3] = 0 /\ data[i + 4] = 1 THEN 4
    ELSE 0

\* VideoDecoder::parseNALUnits: its while loop and the last NAL unit
RECURSIVE parseLoop(_, _, _, _, _)
parseLoop(data, i, nalStart, foundFirst, nalUnits) ==
    IF i < Len(data) - 3
    THEN LET len == startCodeLen(data, i)
         IN  IF len > 0
             THEN parseLoop(data, i + len, i + len, TRUE,
                            IF foundFirst /\ nalStart < i
                            THEN Append(nalUnits, NALUnit(data, nalStart, i - nalStart))
                            ELSE nalUnits)
             ELSE parseLoop(data, i + 1, nalStart, foundFirst, nalUnits)
    ELSE IF foundFirst /\ nalStart < Len(data)
         THEN Append(nalUnits, NALUnit(data, nalStart, Len(data) - nalStart))
         ELSE nalUnits

\* VideoDecoder::parseNALUnits(data, size)
parseNALUnits(data) ==
    IF Len(data) < 4 THEN <<>> ELSE parseLoop(data, 0, 0, FALSE, <<>>)

\* VideoDecoder::decode: the body of its loop over the NAL units
observe(d, data, nal) ==
    LET bytes == BytesAt(data, nal.offset, nal.size)
    IN  IF nal.type = NAL_TYPE_SPS THEN [d EXCEPT !.sps_ = bytes]
        ELSE IF nal.type = NAL_TYPE_PPS
        THEN [d EXCEPT !.pps_ = bytes,
                       !.decoderReady_ = @ \/ d.sps_ # <<>>]
        ELSE d

\* VideoDecoder::decode: the loop over the NAL units
RECURSIVE observeAll(_, _, _)
observeAll(d, data, nalUnits) ==
    IF nalUnits = <<>> THEN d
    ELSE observeAll(observe(d, data, Head(nalUnits)), data, Tail(nalUnits))

\* what the codec does with a packet: avcodec_send_packet fails, reports
\* end of stream, or takes it; avcodec_receive_frame then fails, has no
\* frame yet, or returns one
CodecOutcomes == {"sendError", "eof", "receiveError", "again", "frame"}

\* decode that hands the packet to the codec whether ready or not
decode_Unready(d, data, codec) ==
    LET nalUnits == parseNALUnits(data)
        hasIDR == \E k \in 1..Len(nalUnits) : nalUnits[k].type = NAL_TYPE_IDR
        d1 == observeAll(d, data, nalUnits)
        d2 == IF hasIDR THEN [d1 EXCEPT !.stats_.keyframesDecoded = @ + 1] ELSE d1
        failed == [d2 EXCEPT !.stats_.decodeErrors = @ + 1]
    IN  IF ~d.configured_
        THEN [d |-> d, ret |-> FALSE, sent |-> FALSE, frames |-> 0]
        ELSE CASE codec = "sendError" -> [d |-> failed, ret |-> FALSE, sent |-> TRUE, frames |-> 0]
               [] codec = "eof" -> [d |-> d2, ret |-> TRUE, sent |-> TRUE, frames |-> 0]
               [] codec = "receiveError" ->
                     [d |-> failed, ret |-> FALSE, sent |-> TRUE, frames |-> 0]
               [] codec = "again" -> [d |-> d2, ret |-> TRUE, sent |-> TRUE, frames |-> 0]
               [] OTHER ->
                     [d |-> [d2 EXCEPT !.stats_.framesDecoded = @ + 1],
                      ret |-> TRUE, sent |-> TRUE, frames |-> 1]

\* VideoDecoder::decode(data, size, timestamp): the decoder after the call,
\* what it returned, whether the packet reached the codec, and the number
\* of onDecodedFrame_ calls
decode(d, data, codec) ==
    LET nalUnits == parseNALUnits(data)
        hasIDR == \E k \in 1..Len(nalUnits) : nalUnits[k].type = NAL_TYPE_IDR
        d1 == observeAll(d, data, nalUnits)
        d2 == IF hasIDR THEN [d1 EXCEPT !.stats_.keyframesDecoded = @ + 1] ELSE d1
        failed == [d2 EXCEPT !.stats_.decodeErrors = @ + 1]
    IN  IF ~d.configured_
        THEN [d |-> d, ret |-> FALSE, sent |-> FALSE, frames |-> 0]
        ELSE IF ~d1.decoderReady_
        THEN [d |-> d1, ret |-> TRUE, sent |-> FALSE, frames |-> 0]
        ELSE CASE codec = "sendError" -> [d |-> failed, ret |-> FALSE, sent |-> TRUE, frames |-> 0]
               [] codec = "eof" -> [d |-> d2, ret |-> TRUE, sent |-> TRUE, frames |-> 0]
               [] codec = "receiveError" ->
                     [d |-> failed, ret |-> FALSE, sent |-> TRUE, frames |-> 0]
               [] codec = "again" -> [d |-> d2, ret |-> TRUE, sent |-> TRUE, frames |-> 0]
               [] OTHER ->
                     [d |-> [d2 EXCEPT !.stats_.framesDecoded = @ + 1],
                      ret |-> TRUE, sent |-> TRUE, frames |-> 1]

-----------------------------------------------------------------------------
(* The parts of the program an exercise does not run stay as constructed.  *)

CodecIdle ==
    /\ header = createVideoHeader(Num(0, 4), Num(0, 8), Num(0, 4), Num(0, 2),
                                  Num(0, 2), Num(0, 2), FALSE)
    /\ buffer = <<>>
    /\ parsed = nullopt
    /\ pc = "idle"

ReasmIdle ==
    /\ reassembler = NewReassembler
    /\ prev = NewReassembler
    /\ calls = <<>>
    /\ rets = <<>>
    /\ pool = <<>>

NewNet == [lost |-> 0, duplicated |-> 0, foreign |-> 0, overtaken |-> FALSE]
NewCallbacks == [video |-> <<>>, audio |-> <<>>]

NetIdle ==
    /\ sender = NewSender(CONFIG_MTU)
    /\ sent = <<>>
    /\ channel = <<>>
    /\ net = NewNet
    /\ receiver = NewReceiver
    /\ datagram = nullopt
    /\ callbacks = NewCallbacks

HostIdle == host = NewHostMode

JoinIdle ==
    /\ join = NewJoinMode(0)
    /\ sink = NewSink
    /\ now = Num(0, 8)

\* no thread is inside a handler
NoThreads == <<>>

LifeIdle ==
    /\ hostLife = NewHostLife
    /\ joinLife = NewJoinLife
    /\ threads = NoThreads

EncoderIdle ==
    /\ encoder = NewEncoder
    /\ encoderCalls = <<>>
    /\ emitted = nullopt

DecoderIdle ==
    /\ decoder = NewDecoder
    /\ decoderCalls = <<>>

-----------------------------------------------------------------------------
(* Codec exercise: serialize a header, then deserialize the bytes, the     *)
(* sequence of Test 1 of network_test.cpp, over a set of field values.     *)

TestU16 == {Num(2, 2), Num(5, 2), <<255, 254>>}
TestU32 == {Num(42, 4), <<128, 1, 2, 255>>}
TestU64 == {Num(123456789, 8), <<255, 1, 2, 3, 4, 5, 6, 128>>}
TestU8 == {0, 1, 255}

TestHeaders ==
    [magic : {PROTOCOL_MAGIC, <<66, 73, 68, 78>>},
     version : {PROTOCOL_VERSION, 99},
     mediaType : {Video, Audio}, sourceId : {0, 7}, flags : {0, 1},
     sequenceNumber : TestU32, timestamp : TestU64,
     totalSize : {Num(5000, 4), <<255, 255, 255, 255>>},
     fragmentIndex : TestU16, fragmentCount : {Num(5, 2), Num(0, 2)},
     payloadSize : {Num(1000, 2), <<255, 255>>},
     sampleRate : {Num(0, 4), Num(48000, 4)},
     channels : {0, 2}, reserved : {Zeros(3)}]

CodecInit ==
    /\ littleEndian \in BOOLEAN
    /\ header \in TestHeaders
    /\ buffer = <<>>
    /\ parsed = nullopt
    /\ pc = "start"
    /\ ReasmIdle /\ NetIdle /\ HostIdle /\ JoinIdle /\ LifeIdle /\ EncoderIdle /\ DecoderIdle

Serialize ==
    /\ pc = "start"
    /\ buffer' = serialize(header)
    /\ pc' = "serialized"
    /\ UNCHANGED <<littleEndian, lifeVars, encVars, decVars, header, parsed, reasmVars, netVars, host, joinVars>>

Deserialize ==
    /\ pc = "serialized"
    /\ parsed' = deserialize(buffer, Len(buffer))
    /\ pc' = "deserialized"
    /\ UNCHANGED <<littleEndian, lifeVars, encVars, decVars, header, buffer, reasmVars, netVars, host, joinVars>>

CodecNext == Serialize \/ Deserialize

SpecCodec == CodecInit /\ [][CodecNext]_vars

(* Reassembler exercise: the fragments of two frames, A (sequence 1) and   *)
(* B (sequence 2), are passed to addPacket of one fresh reassembler in any *)
(* order, any number of times, some never.                                 *)

MaxCalls == 5

SeqA == 1
SeqB == 2

ReasmFramesA ==
    {VideoFrame(100, 3, TRUE, 10000000),
     VideoFrame(2 * MAX_UDP_PAYLOAD, 3, FALSE, 10000000),
     VideoFrame(2 * MAX_UDP_PAYLOAD + 1, 3, TRUE, 10000000)}

ReasmFramesB == {VideoFrame(MAX_UDP_PAYLOAD + 1, 11, FALSE, 10333333)}

ReasmInit ==
    /\ littleEndian \in BOOLEAN
    /\ CodecIdle /\ NetIdle /\ HostIdle /\ JoinIdle /\ LifeIdle /\ EncoderIdle /\ DecoderIdle
    /\ reassembler = NewReassembler
    /\ prev = NewReassembler
    /\ calls = <<>>
    /\ rets = <<>>
    /\ \E a \in ReasmFramesA, b \in ReasmFramesB :
          pool = [A |-> a, B |-> b, packets |-> <<>>]

\* the sender fragments frame A, then frame B
SendFrames ==
    /\ pool.packets = <<>>
    /\ pool' = [pool EXCEPT !.packets = FramePackets(SeqA, pool.A)
                                          \o FramePackets(SeqB, pool.B)]
    /\ UNCHANGED <<littleEndian, lifeVars, encVars, decVars, codecVars, reassembler, calls, rets, prev,
                   netVars, host, joinVars>>

\* one addPacket call, as NetworkReceiver::processPacket makes it
AddPacketCall(k) ==
    /\ Len(calls) < MaxCalls
    /\ LET data == pool.packets[k]
           size == Len(data)
           h == value_of(deserialize(data, size))
           payloadSize == size - HEADER_SIZE
           res == addPacket(reassembler, h, BytesAt(data, HEADER_SIZE, payloadSize),
                            payloadSize)
       IN  /\ reassembler' = res.r
           /\ rets' = Append(rets, res.frame)
    /\ calls' = Append(calls, k)
    /\ prev' = reassembler
    /\ UNCHANGED <<littleEndian, lifeVars, encVars, decVars, codecVars, pool, netVars, host, joinVars>>

ReasmNext == SendFrames \/ \E k \in 1..Len(pool.packets) : AddPacketCall(k)

SpecReasm == ReasmInit /\ [][ReasmNext]_vars

-----------------------------------------------------------------------------
(* Forged-header exercise: datagrams whose headers pass Protocol::isValid  *)
(* but whose totalSize, fragmentCount and payloadSize disagree with each   *)
(* other or with the bytes that follow the header are passed to addPacket  *)
(* of one fresh reassembler in any order, any number of times.             *)

\* a datagram: the header as given, followed by n payload bytes (none of
\* them zero)
Forged(seq, totalSize, index, count, payloadSize, n) ==
    serialize(createVideoHeader(Num(seq, 4), Num(10000000, 8), Num(totalSize, 4),
                                Num(index, 2), Num(count, 2), Num(payloadSize, 2), FALSE))
       \o FrameData(n, seq)

ForgedPackets ==
    << Forged(7, 100, 0, 1, 100, 100),      \* a consistent single fragment
       Forged(8, 2000, 0, 1, 100, 100),     \* totalSize beyond the only fragment
       Forged(9, 100, 0, 1, 100, 4),        \* fewer bytes than payloadSize says
       Forged(10, 50, 0, 1, 100, 100),      \* payload beyond totalSize
       Forged(7, 100, 1, 2, 10, 10) >>      \* disagrees with the first of sequence 7

ForgedInit ==
    /\ littleEndian \in BOOLEAN
    /\ CodecIdle /\ NetIdle /\ HostIdle /\ JoinIdle /\ LifeIdle /\ EncoderIdle /\ DecoderIdle
    /\ reassembler = NewReassembler
    /\ prev = NewReassembler
    /\ calls = <<>>
    /\ rets = <<>>
    /\ \E a \in ReasmFramesA, b \in ReasmFramesB : pool = [A |-> a, B |-> b, packets |-> <<>>]

\* the forged datagrams arrive
ForgedArrive ==
    /\ pool.packets = <<>>
    /\ pool' = [pool EXCEPT !.packets = ForgedPackets]
    /\ UNCHANGED <<littleEndian, lifeVars, encVars, decVars, codecVars, reassembler, calls, rets, prev,
                   netVars, host, joinVars>>

\* NetworkReceiver::processPacket hands a datagram to addPacket when its
\* header passes Protocol::isValid
ForgedCall(k) ==
    /\ isValid(value_of(deserialize(pool.packets[k], Len(pool.packets[k]))))
    /\ AddPacketCall(k)

ForgedNext == ForgedArrive \/ \E k \in 1..Len(pool.packets) : ForgedCall(k)

SpecForged == ForgedInit /\ [][ForgedNext]_vars

-----------------------------------------------------------------------------
(* Queue exercise: a process runs either as the sending orchestrator       *)
(* (HostMode: capture callback and encode thread) or as the receiving one  *)
(* (JoinMode: network callback and decode thread).  The frames carry no    *)
(* picture data, the sender's socket is not connected.                     *)

MaxCaptured == 6
MaxReceived == 92

\* the n-th frame the NDI receiver captures
NDIVideoFrame(n) == [timestamp |-> n, data |-> <<>>]

\* what the encoder does with a frame: configure() fails, encode yields no
\* EncodedFrame yet, or one
EncodeOutcomes == {"configure failed", "nothing", "frame"}

\* the number of DecodedFrame callbacks VideoDecoder::decode makes for a
\* frame: none for one without data, none while the decoder waits for
\* SPS/PPS or on a decode error, else one
DecodeOutputs(frame) == IF frame.data = <<>> THEN {0} ELSE {0, 1}

QueueInit ==
    /\ littleEndian = TRUE
    /\ CodecIdle /\ ReasmIdle /\ NetIdle /\ LifeIdle /\ EncoderIdle /\ DecoderIdle
    /\ sink = NewSink
    /\ now = Num(0, 8)
    /\ \/ /\ host = [NewHostMode EXCEPT !.running_ = TRUE]
          /\ join = NewJoinMode(0)
       \/ /\ host = NewHostMode
          /\ join = [NewJoinMode(0) EXCEPT !.running_ = TRUE, !.decoder_ = TRUE,
                                            !.ndiSender_ = TRUE]

\* the NDI receiver thread delivers a captured frame: HostMode::onVideoFrame
HostCapture ==
    /\ host.running_
    /\ host.videoFramesReceived_ < MaxCaptured
    /\ host' = HostMode_onVideoFrame(host, NDIVideoFrame(host.videoFramesReceived_ + 1))
    /\ UNCHANGED <<littleEndian, lifeVars, encVars, decVars, codecVars, reasmVars, netVars, joinVars>>

\* one iteration of HostMode::encodeLoop with a frame in the queue; an
\* EncodedFrame goes to onEncodedFrame, which sends it if the socket is
\* connected
EncodeStep(outcome) ==
    /\ host.running_
    /\ host.frameQueue_ # <<>>
    /\ outcome = "configure failed" => ~host.encoderConfigured_
    /\ LET frame == Head(host.frameQueue_)
           h1 == [host EXCEPT !.frameQueue_ = Tail(@)]
           h2 == IF outcome = "configure failed" THEN h1
                 ELSE [h1 EXCEPT !.encoderConfigured_ = TRUE]
           encoded == [type |-> Video, data |-> FrameData(4, frame.timestamp),
                       isKeyframe |-> FALSE, timestamp |-> Num(frame.timestamp, 8),
                       sampleRate |-> Num(0, 4), channels |-> 0]
           res == sendVideo(sender, encoded, <<"sent">>)
       IN  IF outcome = "frame"
           THEN /\ host' = [h2 EXCEPT !.videoFramesEncoded_ = @ + 1]
                /\ IF sender.connected_
                   THEN /\ sender' = res.s
                        /\ channel' = channel \o [k \in 1..Len(res.wire) |->
                                                    [bytes |-> res.wire[k], of |-> 0]]
                   ELSE UNCHANGED <<sender, channel>>
           ELSE /\ host' = h2
                /\ UNCHANGED <<sender, channel>>
    /\ UNCHANGED <<littleEndian, lifeVars, encVars, decVars, codecVars, reasmVars, sent, net, receiver,
                   datagram, callbacks, joinVars>>

\* the network receiver delivers a completed frame: JoinMode::onVideoFrame
JoinReceive ==
    /\ join.running_
    /\ join.videoFramesReceived_ < MaxReceived
    /\ LET n == join.videoFramesReceived_ + 1
       IN  join' = JoinMode_onVideoFrame(join,
                      [data |-> <<>>, timestamp |-> Num(n, 8), isKeyframe |-> FALSE,
                       sequenceNumber |-> Num(n, 4)])
    /\ UNCHANGED <<littleEndian, lifeVars, encVars, decVars, codecVars, reasmVars, netVars, host, sink, now>>

\* one iteration of JoinMode::decodeLoop with a frame in the queue; each
\* DecodedFrame goes to onDecodedFrame
DecodeStep(outputs) ==
    /\ join.running_
    /\ join.decodeQueue_ # <<>>
    /\ outputs \in DecodeOutputs(Head(join.decodeQueue_))
    /\ LET frame == Head(join.decodeQueue_)
           j1 == [join EXCEPT !.decodeQueue_ = Tail(@)]
           j2 == IF join.decoder_ THEN [j1 EXCEPT !.decodeCount_ = @ + 1] ELSE j1
           res == JoinMode_onDecodedFrame(j2, sink, [timestamp |-> frame.timestamp], now)
       IN  IF join.decoder_ /\ outputs = 1
           THEN join' = res.join /\ sink' = res.sink
           ELSE join' = j2 /\ sink' = sink
    /\ UNCHANGED <<littleEndian, lifeVars, encVars, decVars, codecVars, reasmVars, netVars, host, now>>

QueueNext ==
    \/ HostCapture
    \/ \E outcome \in EncodeOutcomes : EncodeStep(outcome)
    \/ JoinReceive
    \/ \E outputs \in {0, 1} : DecodeStep(outputs)

SpecQueue == QueueInit /\ [][QueueNext]_vars

-----------------------------------------------------------------------------
(* Sender exercise.  The application connects and disconnects the sender   *)
(* and hands frames to sendVideo / sendAudio, each with a later timestamp  *)
(* than the one before; send() accepts a datagram, would block, or fails.  *)

MaxSends == 2
MaxFaults == 1

VideoSizes == {4, MAX_UDP_PAYLOAD + 1}
AudioSizes == {8}
MtuValues == {DEFAULT_MTU, CONFIG_MTU}

\* the timestamp, in 100 ns ticks, of the n-th frame handed to the sender
FrameTimestamp(n) == 10000000 + n * 333333

\* the answers of send() to the fragments of one call, with at most `budget`
\* of them not "sent" and nothing asked after an error
OutcomeVectors(fragmentCount, budget) ==
    {o \in [1..fragmentCount -> SendOutcomes] :
        /\ Cardinality({k \in 1..fragmentCount : o[k] # "sent"}) <= budget
        /\ \A k \in 1..fragmentCount :
              o[k] = "error" => \A m \in (k + 1)..fragmentCount : o[m] = "sent"}

RECURSIVE SumOver(_, _)
SumOver(f, n) == IF n = 0 THEN 0 ELSE f[n] + SumOver(f, n - 1)

\* the send() answers other than "sent" so far
SendFaults == SumOver([c \in 1..Len(sent) |-> sent[c].wouldBlock + sent[c].failed],
                      Len(sent))

\* the connect() calls made at most
MaxConnects == 2

\* the connect() calls that failed so far
ConnectFaults ==
    Cardinality({k \in 1..Len(sender.onError_) : sender.onError_[k] # "Send error"})

\* what went wrong so far: at the socket, on the path, or a stranger's datagram
Faults == SendFaults + ConnectFaults + net.lost + net.duplicated + net.foreign

\* one sendVideo / sendAudio call
SendCall(frame, outcomes) ==
    LET res == IF frame.type = Video THEN sendVideo(sender, frame, outcomes)
               ELSE sendAudio(sender, frame, outcomes)
        c == Len(sent) + 1
        n == Len(outcomes)
    IN  /\ sender' = res.s
        /\ channel' = channel \o [k \in 1..Len(res.wire) |->
                                    [bytes |-> res.wire[k], of |-> c]]
        /\ sent' = Append(sent,
                     [frame |-> frame, seqNum |-> res.s.sequenceNumber_, ok |-> res.ok,
                      connected |-> sender.connected_,
                      emitted |-> Len(res.wire),
                      wouldBlock |-> IF sender.connected_
                                     THEN Cardinality({k \in 1..n : outcomes[k] = "EAGAIN"})
                                     ELSE 0,
                      failed |-> IF sender.connected_ /\ ~res.ok THEN 1 ELSE 0])

SendVideoCall(size, outcomes) ==
    /\ Len(sent) < MaxSends
    /\ LET n == Len(sent) + 1
       IN  SendCall(VideoFrame(size, n, n % 2 = 1, FrameTimestamp(n)), outcomes)
    /\ UNCHANGED <<littleEndian, lifeVars, encVars, decVars, codecVars, reasmVars, net, receiver, datagram,
                   callbacks, host, joinVars>>

SendAudioCall(size, outcomes) ==
    /\ Len(sent) < MaxSends
    /\ LET n == Len(sent) + 1
       IN  SendCall(AudioFrame(size, n, FrameTimestamp(n)), outcomes)
    /\ UNCHANGED <<littleEndian, lifeVars, encVars, decVars, codecVars, reasmVars, net, receiver, datagram,
                   callbacks, host, joinVars>>

\* a NetworkSender::connect() call
Connect(outcome) ==
    /\ sender.onConnected_ + ConnectFaults < MaxConnects
    /\ outcome # "ok" => Faults < MaxFaults
    /\ sender' = connect(sender, outcome).s
    /\ UNCHANGED <<littleEndian, lifeVars, encVars, decVars, codecVars, reasmVars, sent, channel, net, receiver,
                   datagram, callbacks, host, joinVars>>

\* a NetworkSender::disconnect() call
Disconnect ==
    /\ sender' = disconnect(sender)
    /\ UNCHANGED <<littleEndian, lifeVars, encVars, decVars, codecVars, reasmVars, sent, channel, net, receiver,
                   datagram, callbacks, host, joinVars>>

SendInit ==
    /\ littleEndian = TRUE
    /\ CodecIdle /\ ReasmIdle /\ HostIdle /\ JoinIdle /\ LifeIdle /\ EncoderIdle /\ DecoderIdle
    /\ \E mtu \in MtuValues : sender = NewSender(mtu)
    /\ sent = <<>>
    /\ channel = <<>>
    /\ net = NewNet
    /\ receiver = NewReceiver
    /\ datagram = nullopt
    /\ callbacks = NewCallbacks

SendCalls ==
    \/ \E size \in VideoSizes :
         \E o \in OutcomeVectors(calculateFragmentCount(size), MaxFaults - Faults) :
            SendVideoCall(size, o)
    \/ \E size \in AudioSizes :
         \E o \in OutcomeVectors(calculateFragmentCount(size), MaxFaults - Faults) :
            SendAudioCall(size, o)

SendNext ==
    \/ \E outcome \in ConnectOutcomes : Connect(outcome)
    \/ Disconnect
    \/ SendCalls

SpecSend == SendInit /\ [][SendNext]_vars

-----------------------------------------------------------------------------
(* Loopback exercise, the setting of Test 2 of network_test.cpp: a         *)
(* connected sender, a UDP path that may deliver the datagrams in any      *)
(* order, lose them or deliver them twice, and a receiver whose callbacks  *)
(* record the frames they are given.                                       *)

\* the datagrams the path holds at most
MaxInFlight == 2

\* the receive thread passes a datagram to processPacket
Arrive(data, sendTimestamp, recvTimestampNs) ==
    LET res == processPacket(receiver, data, Len(data), sendTimestamp, recvTimestampNs)
    IN  /\ receiver' = res.rx
        /\ callbacks' = [video |-> callbacks.video \o res.video,
                         audio |-> callbacks.audio \o res.audio]

\* history: the datagram of this processPacket call, the receiver before the
\* call and the number of callbacks made before it
Record(data, sendTimestamp) ==
    datagram' = Some([bytes |-> data, sendTimestamp |-> sendTimestamp,
                      before |-> receiver,
                      delivered |-> Len(callbacks.video) + Len(callbacks.audio)])

\* the datagram at position k leaves the path; it overtakes if a datagram of
\* another frame of its media type, sent before it, is still on the path
Leave(k) ==
    /\ channel' = SubSeq(channel, 1, k - 1) \o SubSeq(channel, k + 1, Len(channel))
    /\ net' = [net EXCEPT !.overtaken =
                 \/ @
                 \/ \E i \in 1..(k - 1) :
                       /\ channel[i].of # channel[k].of
                       /\ sent[channel[i].of].frame.type = sent[channel[k].of].frame.type]

\* the datagram at position k of the path arrives
Deliver(k) ==
    /\ Leave(k)
    /\ \E recvTimestampNs \in RecvTimestamps : Arrive(channel[k].bytes, 0, recvTimestampNs)
    /\ UNCHANGED <<littleEndian, lifeVars, encVars, decVars, codecVars, reasmVars, sender, sent, datagram, host,
                   joinVars>>

\* the path loses the datagram at position k
Lose(k) ==
    /\ Faults < MaxFaults
    /\ channel' = SubSeq(channel, 1, k - 1) \o SubSeq(channel, k + 1, Len(channel))
    /\ net' = [net EXCEPT !.lost = @ + 1]
    /\ UNCHANGED <<littleEndian, lifeVars, encVars, decVars, codecVars, reasmVars, sender, sent, receiver,
                   datagram, callbacks, host, joinVars>>

\* the path duplicates the datagram at position k
Duplicate(k) ==
    /\ Faults < MaxFaults
    /\ Len(channel) < MaxInFlight
    /\ channel' = Append(channel, channel[k])
    /\ net' = [net EXCEPT !.duplicated = @ + 1]
    /\ UNCHANGED <<littleEndian, lifeVars, encVars, decVars, codecVars, reasmVars, sender, sent, receiver,
                   datagram, callbacks, host, joinVars>>

NetInit ==
    /\ littleEndian = TRUE
    /\ CodecIdle /\ ReasmIdle /\ HostIdle /\ JoinIdle /\ LifeIdle /\ EncoderIdle /\ DecoderIdle
    /\ sender = connect(NewSender(CONFIG_MTU), "ok").s
    /\ sent = <<>>
    /\ channel = <<>>
    /\ net = NewNet
    /\ receiver = NewReceiver
    /\ datagram = nullopt
    /\ callbacks = NewCallbacks

\* a send call that the path has room for
PathSendCalls == SendCalls /\ Len(channel') <= MaxInFlight

NetNext ==
    \/ PathSendCalls
    \/ \E k \in 1..Len(channel) : Deliver(k)
    \/ \E k \in 1..Len(channel) : Lose(k)
    \/ \E k \in 1..Len(channel) : Duplicate(k)

SpecNet == NetInit /\ [][NetNext]_vars

-----------------------------------------------------------------------------
(* Join exercise: the same sender and path, strangers that send datagrams  *)
(* to the receiver's port, and a receiver owned by a running JoinMode,     *)
(* whose handlers are the receiver's callbacks, with its decode thread and *)
(* its buffer output thread.                                               *)

BufferMsValues == {0, 20}

\* datagrams a stranger can send that are not frames of this protocol: a
\* short one, a wrong magic, a wrong version, and headers isValid rejects
ForeignDatagrams ==
    LET h == createVideoHeader(Num(9, 4), Num(1, 8), Num(4, 4), Num(0, 2),
                               Num(1, 2), Num(0, 2), FALSE)
    IN  {Zeros(10),
         serialize([h EXCEPT !.magic = <<66, 73, 68, 78>>]),
         serialize([h EXCEPT !.version = 99]),
         serialize([h EXCEPT !.fragmentCount = Num(0, 2)]),
         serialize([h EXCEPT !.fragmentIndex = Num(3, 2)]),
         serialize([h EXCEPT !.payloadSize = <<255, 255>>])}

\* the callbacks processPacket has just made run JoinMode::onVideoFrame and
\* JoinMode::onAudioFrame
JoinCallbacks ==
    LET video == SubSeq(callbacks'.video, Len(callbacks.video) + 1, Len(callbacks'.video))
        audio == SubSeq(callbacks'.audio, Len(callbacks.audio) + 1, Len(callbacks'.audio))
        j1 == IF video # <<>> THEN JoinMode_onVideoFrame(join, video[1]) ELSE join
        out == IF audio # <<>>
               THEN JoinMode_onAudioFrame(j1, sink, audio[1], now)
               ELSE [join |-> j1, sink |-> sink]
    IN  /\ join' = out.join
        /\ sink' = out.sink

\* the datagram at position k of the path arrives
JoinDeliver(k) ==
    /\ Leave(k)
    /\ \E recvTimestampNs \in RecvTimestamps :
          /\ Arrive(channel[k].bytes, 0, recvTimestampNs)
          /\ JoinCallbacks
    /\ Record(channel[k].bytes, 0)
    /\ UNCHANGED <<littleEndian, lifeVars, encVars, decVars, codecVars, reasmVars, sender, sent, host, now>>

\* a stranger's datagram arrives
Foreign(data, sendTimestamp) ==
    /\ Faults < MaxFaults
    /\ \E recvTimestampNs \in RecvTimestamps :
          /\ Arrive(data, sendTimestamp, recvTimestampNs)
          /\ JoinCallbacks
    /\ Record(data, sendTimestamp)
    /\ net' = [net EXCEPT !.foreign = @ + 1]
    /\ UNCHANGED <<littleEndian, lifeVars, encVars, decVars, codecVars, reasmVars, sender, sent, channel, host, now>>

\* one call of JoinMode::processBufferedFrames by the buffer output thread
\* that finds a frame due
BufferOutput ==
    /\ join.running_
    /\ LET res == JoinMode_processBufferedFrames(join, sink, now)
       IN  /\ res.join # join
           /\ join' = res.join
           /\ sink' = res.sink
    /\ UNCHANGED <<littleEndian, lifeVars, encVars, decVars, codecVars, reasmVars, netVars, host, now>>

\* the largest reading of steady_clock in microseconds: its duration counts
\* nanoseconds in a signed 64-bit integer, (2^63 - 1) / 1000
SteadyClockMax == <<0, 32, 196, 155, 165, 227, 83, 247>>

\* time passes, up to the play time of some buffered frame that the clock
\* can reach
Tick ==
    /\ \E k \in 1..(Len(join.videoBuffer_) + Len(join.audioBuffer_)) :
          LET f == (join.videoBuffer_ \o join.audioBuffer_)[k]
          IN  /\ ~LessEq64(f.playTime, now)
              /\ LessEq64(f.playTime, SteadyClockMax)
              /\ now' = f.playTime
    /\ UNCHANGED <<littleEndian, lifeVars, encVars, decVars, codecVars, reasmVars, netVars, host, join, sink>>

JoinInit ==
    /\ littleEndian = TRUE
    /\ CodecIdle /\ ReasmIdle /\ HostIdle /\ LifeIdle /\ EncoderIdle /\ DecoderIdle
    /\ sender = connect(NewSender(CONFIG_MTU), "ok").s
    /\ sent = <<>>
    /\ channel = <<>>
    /\ net = NewNet
    /\ receiver = NewReceiver
    /\ datagram = nullopt
    /\ callbacks = NewCallbacks
    /\ \E bufferMs \in BufferMsValues :
          join = [NewJoinMode(bufferMs) EXCEPT !.running_ = TRUE, !.decoder_ = TRUE,
                                                !.ndiSender_ = TRUE]
    /\ sink = NewSink
    /\ now = Num(5000000, 8)

JoinNext ==
    \/ PathSendCalls
    \/ \E k \in 1..Len(channel) : JoinDeliver(k)
    \/ \E k \in 1..Len(channel) : Lose(k)
    \/ \E k \in 1..Len(channel) : Duplicate(k)
    \/ \E data \in ForeignDatagrams, sendTimestamp \in SendTimestamps :
          Foreign(data, sendTimestamp)
    \/ \E outputs \in {0, 1} : DecodeStep(outputs)
    \/ BufferOutput
    \/ Tick

SpecJoin == JoinInit /\ [][JoinNext]_vars

\* the decode thread and the playout thread are scheduled and time passes:
\* a decode step, a wake-up of the playout thread that finds a frame due,
\* or the passing of time that stays possible is taken.  Nothing makes the
\* sender send or the network deliver.
FairJoin ==
    /\ SpecJoin
    /\ WF_vars(\E outputs \in {0, 1} : DecodeStep(outputs))
    /\ WF_vars(BufferOutput)
    /\ WF_vars(Tick)

-----------------------------------------------------------------------------
(* Streams exercise: the sender numbers a video frame 1, an audio frame 2, *)
(* a video frame 3 and an audio frame 4 from its one counter; their        *)
(* datagrams reach processPacket of a fresh receiver in any order, any     *)
(* number of times, some never.                                            *)

\* the processPacket calls made at most
MaxDatagrams == 4

StreamPackets ==
    FramePackets(1, VideoFrame(MAX_UDP_PAYLOAD + 1, 3, TRUE, 10000000))
        \o FramePackets(2, AudioFrame(MAX_UDP_PAYLOAD + 8, 5, 10000000))
        \o FramePackets(3, VideoFrame(4, 7, FALSE, 10333333))
        \o FramePackets(4, AudioFrame(8, 9, 10333333))

\* the receive thread passes datagram k to processPacket
StreamArrive(k) ==
    /\ receiver.stats_.packetsReceived < MaxDatagrams
    /\ \E recvTimestampNs \in RecvTimestamps : Arrive(StreamPackets[k], 0, recvTimestampNs)
    /\ Record(StreamPackets[k], 0)
    /\ UNCHANGED <<littleEndian, lifeVars, encVars, decVars, codecVars, reasmVars, sender, sent,
                   channel, net, host, joinVars>>

StreamsInit ==
    /\ littleEndian = TRUE
    /\ CodecIdle /\ ReasmIdle /\ HostIdle /\ JoinIdle /\ LifeIdle /\ EncoderIdle /\ DecoderIdle
    /\ sender = NewSender(DEFAULT_MTU)
    /\ sent = <<>>
    /\ channel = <<>>
    /\ net = NewNet
    /\ receiver = NewReceiver
    /\ datagram = nullopt
    /\ callbacks = NewCallbacks

StreamsNext == \E k \in 1..Len(StreamPackets) : StreamArrive(k)

SpecStreams == StreamsInit /\ [][StreamsNext]_vars

-----------------------------------------------------------------------------
(* Host stop exercise: HostMode::start on the pipeline thread, the encode  *)
(* thread, the capture callback, and stop() called from the exit path of   *)
(* start(), from BridgeManager and from the destructor.  Every step is one *)
(* access to running_, the queue under its mutex, the condition variable   *)
(* or the thread object.                                                   *)

\* the stop() calls one caller makes at most
MaxStopCalls == 2

\* HostMode::start up to `running_ = true`
HostStartRunning ==
    /\ hostLife.start = "idle"
    /\ hostLife.stop["destructor"] = "idle"
    /\ hostLife' = IF hostLife.running_
                   THEN [hostLife EXCEPT !.start = "returned"]
                   ELSE [hostLife EXCEPT !.running_ = TRUE, !.start = "spawn"]

\* encodeThread_ = std::thread(&HostMode::encodeLoop, this)
HostStartThread ==
    /\ hostLife.start = "spawn"
    /\ hostLife' = [hostLife EXCEPT !.encodeThread = "while", !.joinable = TRUE,
                                    !.start = "receive"]

\* ndiReceiver_->startReceiving()
HostStartReceiving ==
    /\ hostLife.start = "receive"
    /\ hostLife' = [hostLife EXCEPT !.receiving = TRUE, !.start = "mainLoop"]

\* the main loop of start() ends (running or running_ is false) and start()
\* calls stop()
HostMainLoopExit ==
    /\ hostLife.start = "mainLoop"
    /\ hostLife' = EnterStop([hostLife EXCEPT !.start = "stopping"], "start", "cas")

\* start() returns after its stop() call
HostStartReturn ==
    /\ hostLife.start = "stopping"
    /\ hostLife.stop["start"] = "done"
    /\ hostLife' = [hostLife EXCEPT !.start = "returned"]

\* BridgeManager::stopPipeline / stopAll calls host->stop(); the destructor
\* calls stop() once the pipeline thread and the manager are through
HostStopInvoke(c) ==
    /\ c # "start"
    /\ hostLife.stop[c] \in {"idle", "done"}
    /\ Cardinality(CallsBy(hostLife, c)) < MaxStopCalls
    /\ c = "manager" => hostLife.stop["destructor"] = "idle"
    /\ c = "destructor" =>
          /\ hostLife.start \in {"idle", "returned"}
          /\ hostLife.stop["manager"] \in {"idle", "done"}
    /\ hostLife' = EnterStop(hostLife, c, "cas")

\* one step of HostMode::stop() by caller c
HostStopStep(c) ==
    LET L == hostLife
        at == L.stop[c]
    IN  CASE at = "cas" ->
               LET r == compare_exchange_strong(L.running_, TRUE, FALSE)
               IN  hostLife' =
                      [L EXCEPT !.running_ = r.a,
                                !.stop[c] = IF r.ok THEN "notify" ELSE "done",
                                !.stopCalls[CurrentCall(L, c)].won = r.ok]
          [] at = "notify" ->
               hostLife' =
                  [Touch(L, c, "queueCv_") EXCEPT
                      !.encodeThread = IF @ = "blocked" THEN "pred" ELSE @,
                      !.stop[c] = "joinable"]
          [] at = "joinable" ->
               \* racing with the assignment in start(), joinable() may
               \* answer either way
               \E answer \in (IF L.start = "spawn" THEN BOOLEAN ELSE {L.joinable}) :
                  hostLife' =
                     [Touch(L, c, "encodeThread_") EXCEPT
                         !.stop[c] = IF answer THEN "join" ELSE "ndiReceiver"]
          [] at = "join" ->
               hostLife' = [L EXCEPT !.joins = Append(@, c), !.stop[c] = "joining"]
          [] at = "joining" ->
               /\ L.encodeThread = "exited"
               /\ hostLife' = [L EXCEPT !.joinable = FALSE, !.stop[c] = "ndiReceiver"]
          [] at = "ndiReceiver" ->
               hostLife' = [Touch(L, c, "ndiReceiver_") EXCEPT
                               !.receiving = FALSE, !.stop[c] = "encoder"]
          [] at = "encoder" ->
               hostLife' = [Touch(L, c, "encoder_") EXCEPT !.stop[c] = "networkSender"]
          [] at = "networkSender" ->
               hostLife' = [Touch(L, c, "networkSender_") EXCEPT !.stop[c] = "done"]
          [] OTHER -> FALSE

\* one step of HostMode::encodeLoop
EncodeThreadStep ==
    LET L == hostLife
        at == L.encodeThread
    IN  CASE at = "while" ->
               hostLife' = [L EXCEPT !.encodeThread = IF L.running_ THEN "pred" ELSE "exited"]
          [] at = "pred" ->
               \* lock queueMutex_ and evaluate the predicate of queueCv_.wait
               hostLife' = [L EXCEPT !.encodeThread =
                               IF L.frameQueue_ > 0 \/ ~L.running_ THEN "check" ELSE "wait"]
          [] at = "wait" ->
               \* release the mutex and block on queueCv_
               hostLife' = [L EXCEPT !.encodeThread = "blocked"]
          [] at = "check" ->
               hostLife' = IF ~L.running_ /\ L.frameQueue_ = 0
                           THEN [L EXCEPT !.encodeThread = "exited"]
                           ELSE [L EXCEPT !.frameQueue_ = @ - 1, !.encodeThread = "encode"]
          [] at = "encode" ->
               hostLife' = [L EXCEPT !.encodeThread = "while"]
          [] OTHER -> FALSE

\* a condition variable may wake a waiter without a notification
HostSpuriousWakeup ==
    /\ hostLife.encodeThread = "blocked"
    /\ hostLife' = [hostLife EXCEPT !.encodeThread = "pred"]

\* HostMode::onVideoFrame on the NDI receive thread: push under the mutex
\* (dropping the oldest frame of a full queue) and notify_one
CaptureWhileStopping ==
    /\ hostLife.receiving
    /\ hostLife.captured < MaxCaptured
    /\ hostLife.encodeThread \notin {"wait", "check"}
    /\ hostLife' = [hostLife EXCEPT
                      !.frameQueue_ = Min(@ + 1, MAX_QUEUE_SIZE),
                      !.captured = @ + 1,
                      !.encodeThread = IF @ = "blocked" THEN "pred" ELSE @]

HostStopOthers ==
    UNCHANGED <<littleEndian, codecVars, reasmVars, netVars, host, joinVars, joinLife, threads, encVars, decVars>>

HostStopInit ==
    /\ littleEndian = TRUE
    /\ CodecIdle /\ ReasmIdle /\ NetIdle /\ HostIdle /\ JoinIdle /\ EncoderIdle /\ DecoderIdle
    /\ hostLife = NewHostLife
    /\ joinLife = NewJoinLife
    /\ threads = NoThreads

HostStartSteps ==
    \/ HostStartRunning
    \/ HostStartThread
    \/ HostStartReceiving
    \/ HostStartReturn

HostStopNext ==
    \/ HostStartSteps /\ HostStopOthers
    \/ HostMainLoopExit /\ HostStopOthers
    \/ (\E c \in Callers : HostStopInvoke(c)) /\ HostStopOthers
    \/ (\E c \in Callers : HostStopStep(c)) /\ HostStopOthers
    \/ EncodeThreadStep /\ HostStopOthers
    \/ HostSpuriousWakeup /\ HostStopOthers
    \/ CaptureWhileStopping /\ HostStopOthers

SpecHostStop == HostStopInit /\ [][HostStopNext]_vars

\* the threads are scheduled fairly: a step of start(), of a stop() call or
\* of the encode thread that stays possible is taken.  Nothing makes the
\* receiver capture a frame, a caller call stop(), or the condition variable
\* wake a waiter on its own.
FairHostStop ==
    /\ SpecHostStop
    /\ WF_vars(HostStartSteps /\ HostStopOthers)
    /\ WF_vars(EncodeThreadStep /\ HostStopOthers)
    /\ \A c \in Callers : WF_vars(HostStopStep(c) /\ HostStopOthers)

-----------------------------------------------------------------------------
(* Join stop exercise: JoinMode::start on the pipeline thread, the decode  *)
(* thread and the playout thread, and stop() called from the exit path of  *)
(* start(), from BridgeManager and from the destructor.  Every step is one *)
(* access to a running flag or to a thread object.                         *)

\* JoinMode::start: `if (running_) return 1`
JoinStartCheck ==
    /\ joinLife.start = "idle"
    /\ joinLife.stop["destructor"] = "idle"
    /\ joinLife' = [joinLife EXCEPT
                      !.start = IF joinLife.running_ THEN "returned" ELSE "decodeRunning"]

\* the statements of JoinMode::start from `decodeRunning_ = true` to
\* `running_ = true`, one at a time; ndiSender_->start or startListening
\* may fail and make start() return
JoinStartStep ==
    LET L == joinLife
        at == L.start
    IN  CASE at = "decodeRunning" ->
               joinLife' = [L EXCEPT !.decodeRunning_ = TRUE, !.start = "decodeThread"]
          [] at = "decodeThread" ->
               joinLife' = [L EXCEPT !.decodeThread = "running", !.decodeJoinable = TRUE,
                                     !.start = "components"]
          [] at = "components" ->
               \E ok \in BOOLEAN :
                  joinLife' = [L EXCEPT !.start =
                                  IF ~ok THEN "returned"
                                  ELSE IF L.config_.bufferMs > 0 THEN "bufferRunning"
                                  ELSE "running"]
          [] at = "bufferRunning" ->
               joinLife' = [L EXCEPT !.bufferRunning_ = TRUE, !.start = "bufferThread"]
          [] at = "bufferThread" ->
               joinLife' = [L EXCEPT !.bufferThread = "running", !.bufferJoinable = TRUE,
                                     !.start = "running"]
          [] at = "running" ->
               joinLife' = [L EXCEPT !.running_ = TRUE, !.start = "mainLoop"]
          [] OTHER -> FALSE

\* the main loop of start() ends and start() calls stop()
JoinMainLoopExit ==
    /\ joinLife.start = "mainLoop"
    /\ joinLife' = EnterStop([joinLife EXCEPT !.start = "stopping"], "start", "checkRunning")

\* start() returns after its stop() call
JoinStartReturn ==
    /\ joinLife.start = "stopping"
    /\ joinLife.stop["start"] = "done"
    /\ joinLife' = [joinLife EXCEPT !.start = "returned"]

\* BridgeManager::stopPipeline / stopAll calls join->stop(); the destructor
\* calls stop() once the pipeline thread and the manager are through
JoinStopInvoke(c) ==
    /\ c # "start"
    /\ joinLife.stop[c] \in {"idle", "done"}
    /\ Cardinality(CallsBy(joinLife, c)) < MaxStopCalls
    /\ c = "manager" => joinLife.stop["destructor"] = "idle"
    /\ c = "destructor" =>
          /\ joinLife.start \in {"idle", "returned"}
          /\ joinLife.stop["manager"] \in {"idle", "done"}
    /\ joinLife' = EnterStop(joinLife, c, "checkRunning")

\* one step of JoinMode::stop() by caller c
JoinStopStep(c) ==
    LET L == joinLife
        at == L.stop[c]
    IN  CASE at = "checkRunning" ->
               joinLife' = [L EXCEPT !.stop[c] = IF ~L.running_ THEN "done" ELSE "setRunning"]
          [] at = "setRunning" ->
               joinLife' = [L EXCEPT !.running_ = FALSE,
                                     !.stopCalls[CurrentCall(L, c)].won = TRUE,
                                     !.stop[c] = "checkBuffer"]
          [] at = "checkBuffer" ->
               joinLife' = [L EXCEPT !.stop[c] = IF L.bufferRunning_ THEN "setBuffer"
                                                 ELSE "networkReceiver"]
          [] at = "setBuffer" ->
               joinLife' = [L EXCEPT !.bufferRunning_ = FALSE, !.stop[c] = "joinableBuffer"]
          [] at = "joinableBuffer" ->
               joinLife' = [Touch(L, c, "bufferThread_") EXCEPT
                               !.stop[c] = IF L.bufferJoinable THEN "joinBuffer"
                                           ELSE "networkReceiver"]
          [] at = "joinBuffer" ->
               joinLife' = [L EXCEPT !.joinsBuffer = Append(@, c), !.stop[c] = "joiningBuffer"]
          [] at = "joiningBuffer" ->
               /\ L.bufferThread = "exited"
               /\ joinLife' = [L EXCEPT !.bufferJoinable = FALSE, !.stop[c] = "networkReceiver"]
          [] at = "networkReceiver" ->
               joinLife' = [Touch(L, c, "networkReceiver_") EXCEPT !.stop[c] = "checkDecode"]
          [] at = "checkDecode" ->
               joinLife' = [L EXCEPT !.stop[c] = IF L.decodeRunning_ THEN "setDecode"
                                                 ELSE "decoder"]
          [] at = "setDecode" ->
               joinLife' = [L EXCEPT !.decodeRunning_ = FALSE, !.stop[c] = "notify"]
          [] at = "notify" ->
               joinLife' = [Touch(L, c, "decodeQueueCv_") EXCEPT !.stop[c] = "joinableDecode"]
          [] at = "joinableDecode" ->
               joinLife' = [Touch(L, c, "decodeThread_") EXCEPT
                               !.stop[c] = IF L.decodeJoinable THEN "joinDecode"
                                           ELSE "decoder"]
          [] at = "joinDecode" ->
               joinLife' = [L EXCEPT !.joinsDecode = Append(@, c), !.stop[c] = "joiningDecode"]
          [] at = "joiningDecode" ->
               /\ L.decodeThread = "exited"
               /\ joinLife' = [L EXCEPT !.decodeJoinable = FALSE, !.stop[c] = "decoder"]
          [] at = "decoder" ->
               joinLife' = [Touch(L, c, "decoder_") EXCEPT !.stop[c] = "ndiSender"]
          [] at = "ndiSender" ->
               joinLife' = [Touch(L, c, "ndiSender_") EXCEPT !.stop[c] = "done"]
          [] OTHER -> FALSE

\* JoinMode::decodeLoop leaves its loop once decodeRunning_ is false
DecodeThreadExit ==
    /\ joinLife.decodeThread = "running"
    /\ ~joinLife.decodeRunning_
    /\ joinLife' = [joinLife EXCEPT !.decodeThread = "exited"]

\* JoinMode::bufferOutputLoop leaves its loop once bufferRunning_ is false
BufferThreadExit ==
    /\ joinLife.bufferThread = "running"
    /\ ~joinLife.bufferRunning_
    /\ joinLife' = [joinLife EXCEPT !.bufferThread = "exited"]

JoinStopOthers ==
    UNCHANGED <<littleEndian, codecVars, reasmVars, netVars, host, joinVars, hostLife, threads, encVars, decVars>>

JoinStopInit ==
    /\ littleEndian = TRUE
    /\ CodecIdle /\ ReasmIdle /\ NetIdle /\ HostIdle /\ JoinIdle /\ EncoderIdle /\ DecoderIdle
    /\ hostLife = NewHostLife
    /\ threads = NoThreads
    /\ \E bufferMs \in BufferMsValues :
          joinLife = [NewJoinLife EXCEPT !.config_.bufferMs = bufferMs]

JoinStopNext ==
    \/ JoinStartCheck /\ JoinStopOthers
    \/ JoinStartStep /\ JoinStopOthers
    \/ JoinMainLoopExit /\ JoinStopOthers
    \/ JoinStartReturn /\ JoinStopOthers
    \/ (\E c \in Callers : JoinStopInvoke(c)) /\ JoinStopOthers
    \/ (\E c \in Callers : JoinStopStep(c)) /\ JoinStopOthers
    \/ DecodeThreadExit /\ JoinStopOthers
    \/ BufferThreadExit /\ JoinStopOthers

SpecJoinStop == JoinStopInit /\ [][JoinStopNext]_vars

-----------------------------------------------------------------------------
(* Join halt exercise: the join stop exercise with the threads followed    *)
(* statement by statement: NetworkReceiver::receiveLoop with the outcomes  *)
(* of poll and recvfrom, JoinMode::decodeLoop with its predicate check and *)
(* wait on decodeQueueCv_, and NetworkReceiver::stop inside                *)
(* JoinMode::stop.                                                         *)

\* the datagrams (each a whole video frame) that arrive at the socket
MaxArrivals == 1

\* what poll(&pfd, 1, 10) can report on an open socket
PollOutcomes == {"timeout", "EINTR", "error", "noPollin", "pollin"}

\* what recvfrom can report after POLLIN
RecvOutcomes == {"data", "empty", "EINTR", "EAGAIN", "error"}

\* the statements of JoinMode::start: ndiSender_->start and startListening
\* may fail; startListening binds the socket, sets the flags and starts
\* the receive thread
JoinHaltStartStep ==
    LET L == joinLife
    IN  IF L.start = "components"
        THEN \E outcome \in {"ok", "ndiSender", "startListening"} :
                joinLife' =
                   IF outcome # "ok" THEN [L EXCEPT !.start = "returned"]
                   ELSE [L EXCEPT
                           !.networkReceiver_.shouldStop_ = FALSE,
                           !.networkReceiver_.listening_ = TRUE,
                           !.networkReceiver_.socket_ = SocketFd,
                           !.networkReceiver_.receiveThread = "while",
                           !.networkReceiver_.joinable = TRUE,
                           !.start = IF L.config_.bufferMs > 0 THEN "bufferRunning"
                                     ELSE "running"]
        ELSE JoinStartStep

\* one step of NetworkReceiver::receiveLoop
ReceiveThreadStep ==
    LET L == joinLife
        R == L.networkReceiver_
        at == R.receiveThread
    IN  CASE at = "while" ->
               joinLife' = [L EXCEPT !.networkReceiver_.receiveThread =
                               IF R.shouldStop_ THEN "exited" ELSE "poll"]
          [] at = "poll" ->
               \* a closed socket reports POLLNVAL, never POLLIN
               \E outcome \in (IF R.socket_ = -1 THEN {"noPollin"} ELSE PollOutcomes) :
                  /\ outcome = "error" => R.errors < MaxFaults
                  /\ outcome = "pollin" => R.processed < MaxArrivals
                  /\ joinLife' =
                        [L EXCEPT
                           !.networkReceiver_.errors = IF outcome = "error" THEN @ + 1 ELSE @,
                           !.networkReceiver_.receiveThread =
                              CASE outcome = "error" -> "exited"
                                [] outcome = "pollin" -> "recvfrom"
                                [] OTHER -> "while"]
          [] at = "recvfrom" ->
               \E outcome \in (IF R.socket_ = -1 THEN {"error"} ELSE RecvOutcomes) :
                  /\ (outcome = "error" /\ R.socket_ # -1) => R.errors < MaxFaults
                  /\ joinLife' =
                        [L EXCEPT
                           !.networkReceiver_.errors = IF outcome = "error" THEN @ + 1 ELSE @,
                           !.networkReceiver_.receiveThread =
                              CASE outcome = "error" -> "exited"
                                [] outcome = "data" -> "processPacket"
                                [] OTHER -> "while"]
          [] at = "processPacket" ->
               \* processPacket -> onVideoFrame_ -> JoinMode::onVideoFrame:
               \* push under decodeQueueMutex_, then notify_one
               /\ L.decodeThread \notin {"wait", "check"}
               /\ joinLife' =
                     [L EXCEPT
                        !.networkReceiver_.processed = @ + 1,
                        !.networkReceiver_.receiveThread = "while",
                        !.decodeQueue_ = Min(@ + 1, MAX_DECODE_QUEUE),
                        !.decodeThread = IF @ = "blocked" THEN "pred" ELSE @]
          [] OTHER -> FALSE

\* one step of JoinMode::decodeLoop ("running" is the test of the while)
DecodeThreadStep ==
    LET L == joinLife
        at == L.decodeThread
    IN  CASE at = "running" ->
               joinLife' = [L EXCEPT !.decodeThread =
                               IF L.decodeRunning_ THEN "pred" ELSE "exited"]
          [] at = "pred" ->
               \* lock decodeQueueMutex_ and evaluate the predicate of the wait
               joinLife' = [L EXCEPT !.decodeThread =
                               IF L.decodeQueue_ > 0 \/ ~L.decodeRunning_ THEN "check"
                               ELSE "wait"]
          [] at = "wait" ->
               \* release the mutex and block on decodeQueueCv_
               joinLife' = [L EXCEPT !.decodeThread = "blocked"]
          [] at = "check" ->
               joinLife' = IF ~L.decodeRunning_ /\ L.decodeQueue_ = 0
                           THEN [L EXCEPT !.decodeThread = "exited"]
                           ELSE [L EXCEPT !.decodeQueue_ = @ - 1, !.decodeThread = "decode"]
          [] at = "decode" ->
               joinLife' = [L EXCEPT !.decodeThread = "running"]
          [] OTHER -> FALSE

\* a condition variable may wake a waiter without a notification
DecodeSpuriousWakeup ==
    /\ joinLife.decodeThread = "blocked"
    /\ joinLife' = [joinLife EXCEPT !.decodeThread = "pred"]

\* decodeQueueCv_.notify_all(): the threads blocked in wait test the
\* predicate again
notify_all(L) == [L EXCEPT !.decodeThread = IF @ = "blocked" THEN "pred" ELSE @]

\* one step of JoinMode::stop() by caller c, with NetworkReceiver::stop
\* and the notification of the decode thread in full
JoinHaltStep(c) ==
    LET L == joinLife
        R == L.networkReceiver_
        at == L.stop[c]
    IN  CASE at = "networkReceiver" ->
               \* NetworkReceiver::stop: `if (!listening_) return`
               joinLife' = [Touch(L, c, "networkReceiver_") EXCEPT
                               !.stop[c] = IF R.listening_ THEN "shouldStop"
                                           ELSE "checkDecode"]
          [] at = "shouldStop" ->
               joinLife' = [L EXCEPT !.networkReceiver_.shouldStop_ = TRUE,
                                     !.stop[c] = "close"]
          [] at = "close" ->
               joinLife' = [L EXCEPT !.networkReceiver_.socket_ = -1,
                                     !.stop[c] = "joinableReceive"]
          [] at = "joinableReceive" ->
               joinLife' = [L EXCEPT !.stop[c] = IF R.joinable THEN "joinReceive"
                                                 ELSE "listening"]
          [] at = "joinReceive" ->
               joinLife' = [L EXCEPT !.networkReceiver_.joins = Append(@, c),
                                     !.stop[c] = "joiningReceive"]
          [] at = "joiningReceive" ->
               /\ R.receiveThread = "exited"
               /\ joinLife' = [L EXCEPT !.networkReceiver_.joinable = FALSE,
                                        !.stop[c] = "listening"]
          [] at = "listening" ->
               joinLife' = [L EXCEPT !.networkReceiver_.listening_ = FALSE,
                                     !.stop[c] = "checkDecode"]
          [] at = "notify" ->
               joinLife' = [notify_all(Touch(L, c, "decodeQueueCv_")) EXCEPT
                               !.stop[c] = "joinableDecode"]
          [] at \in {"idle", "done"} -> FALSE
          [] OTHER -> JoinStopStep(c)

\* BridgeManager::stopPipeline / stopAll calls join->stop() while the
\* pipeline thread is in start()
JoinHaltInvoke ==
    /\ joinLife.stop["manager"] = "idle"
    /\ joinLife' = EnterStop(joinLife, "manager", "checkRunning")

JoinHaltStartSteps ==
    \/ JoinStartCheck
    \/ JoinHaltStartStep
    \/ JoinStartReturn

JoinHaltNext ==
    \/ JoinHaltStartSteps /\ JoinStopOthers
    \/ JoinMainLoopExit /\ JoinStopOthers
    \/ JoinHaltInvoke /\ JoinStopOthers
    \/ (\E c \in Callers : JoinHaltStep(c)) /\ JoinStopOthers
    \/ ReceiveThreadStep /\ JoinStopOthers
    \/ DecodeThreadStep /\ JoinStopOthers
    \/ DecodeSpuriousWakeup /\ JoinStopOthers
    \/ BufferThreadExit /\ JoinStopOthers

SpecJoinHalt == JoinStopInit /\ [][JoinHaltNext]_vars

\* the threads are scheduled fairly: a step of start(), of a stop() call, of
\* the receive thread, the decode thread or the playout thread that stays
\* possible is taken, and the receive thread gets decodeQueueMutex_ when
\* the mutex is free again and again.  Nothing makes a caller call stop(),
\* a datagram arrive, or the condition variable wake a waiter on its own.
FairJoinHalt ==
    /\ SpecJoinHalt
    /\ WF_vars(JoinHaltStartSteps /\ JoinStopOthers)
    /\ SF_vars(ReceiveThreadStep /\ JoinStopOthers)
    /\ WF_vars(DecodeThreadStep /\ JoinStopOthers)
    /\ WF_vars(BufferThreadExit /\ JoinStopOthers)
    /\ \A c \in Callers : WF_vars(JoinHaltStep(c) /\ JoinStopOthers)

-----------------------------------------------------------------------------
(* Anchor exercise: a running JoinMode in buffered mode; the decode thread *)
(* runs onDecodedFrame and the receive thread runs onAudioFrame, each one  *)
(* access to bufferSynced_, firstFrameTimestamp_ or bufferStartTime_ at a  *)
(* time.  onDecodedFrame holds videoBufferMutex_ and onAudioFrame holds    *)
(* audioBufferMutex_, so neither excludes the other.                       *)

\* the frames each thread handles, and the times the clock advances
MaxHandled == 2
MaxTicks == 2

AnchorThreads == {"decode", "receive"}

\* frame.timestamp of frame k handled by thread t (video on the decode
\* thread, audio on the receive thread)
AnchorTimestamp(t, k) ==
    Num(FrameTimestamp(2 * k + (IF t = "decode" THEN 0 ELSE 1)), 8)

NewAnchorThreads ==
    [pc |-> [t \in AnchorThreads |-> "idle"],
     frame |-> [t \in AnchorThreads |-> Num(0, 8)],
     handled |-> [t \in AnchorThreads |-> 0],
     ticks |-> 0,
     arrivals |-> <<>>,
     writes |-> <<>>]

\* the handler of thread t is entered with a frame and takes its mutex
AnchorEnter(t) ==
    /\ threads.pc[t] = "idle"
    /\ threads.handled[t] < MaxHandled
    /\ LET timestamp == AnchorTimestamp(t, threads.handled[t])
       IN  threads' = [threads EXCEPT !.pc[t] = "test", !.frame[t] = timestamp,
                                      !.handled[t] = @ + 1]
    /\ UNCHANGED <<join, now>>

\* `if (!bufferSynced_ && firstFrameTimestamp_ == 0)`; the frames arrive at
\* the anchor in the order of this test
AnchorTest(t) ==
    /\ threads.pc[t] = "test"
    /\ threads' = [threads EXCEPT
                      !.pc[t] = IF ~join.bufferSynced_ /\ join.firstFrameTimestamp_ = Num(0, 8)
                                THEN "firstFrameTimestamp" ELSE "push",
                      !.arrivals = Append(@, [by |-> t, timestamp |-> threads.frame[t]])]
    /\ UNCHANGED <<join, now>>

\* the three assignments of the block, one at a time
AnchorWrite(t) ==
    LET at == threads.pc[t]
        wrote(field, value) == Append(threads.writes, [field |-> field, by |-> t,
                                                       frame |-> threads.frame[t],
                                                       value |-> value])
    IN  /\ CASE at = "firstFrameTimestamp" ->
                  /\ join' = [join EXCEPT !.firstFrameTimestamp_ = threads.frame[t]]
                  /\ threads' = [threads EXCEPT
                                    !.pc[t] = "bufferStartTime",
                                    !.writes = wrote("firstFrameTimestamp_", threads.frame[t])]
             [] at = "bufferStartTime" ->
                  /\ join' = [join EXCEPT !.bufferStartTime_ = now]
                  /\ threads' = [threads EXCEPT
                                    !.pc[t] = "bufferSynced",
                                    !.writes = wrote("bufferStartTime_", now)]
             [] at = "bufferSynced" ->
                  /\ join' = [join EXCEPT !.bufferSynced_ = TRUE]
                  /\ threads' = [threads EXCEPT !.pc[t] = "push"]
             [] OTHER -> FALSE
        /\ UNCHANGED now

\* playTime is computed and the frame is pushed; the mutex is released
AnchorPush(t) ==
    /\ threads.pc[t] = "push"
    /\ LET buffered == [timestamp |-> threads.frame[t],
                        playTime |-> PlayTime(join, threads.frame[t])]
       IN  join' = IF t = "decode"
                   THEN [join EXCEPT !.videoFramesDecoded_ = @ + 1,
                                     !.videoBuffer_ = Append(@, buffered)]
                   ELSE [join EXCEPT !.audioFramesReceived_ = @ + 1,
                                     !.audioBuffer_ = Append(@, buffered)]
    /\ threads' = [threads EXCEPT !.pc[t] = "idle"]
    /\ UNCHANGED now

\* a millisecond passes
AnchorTick ==
    /\ threads.ticks < MaxTicks
    /\ now' = Add64(now, Num(1000, 8))
    /\ threads' = [threads EXCEPT !.ticks = @ + 1]
    /\ UNCHANGED join

AnchorOthers ==
    UNCHANGED <<littleEndian, codecVars, reasmVars, netVars, host, sink, hostLife, joinLife,
                encVars, decVars>>

AnchorInit ==
    /\ littleEndian = TRUE
    /\ CodecIdle /\ ReasmIdle /\ NetIdle /\ HostIdle /\ EncoderIdle /\ DecoderIdle
    /\ hostLife = NewHostLife
    /\ joinLife = NewJoinLife
    /\ threads = NewAnchorThreads
    /\ join = [NewJoinMode(20) EXCEPT !.running_ = TRUE, !.decoder_ = TRUE,
                                      !.ndiSender_ = TRUE]
    /\ sink = NewSink
    /\ now = Num(5000000, 8)

AnchorNext ==
    \/ (\E t \in AnchorThreads : AnchorEnter(t)) /\ AnchorOthers
    \/ (\E t \in AnchorThreads : AnchorTest(t)) /\ AnchorOthers
    \/ (\E t \in AnchorThreads : AnchorWrite(t)) /\ AnchorOthers
    \/ (\E t \in AnchorThreads : AnchorPush(t)) /\ AnchorOthers
    \/ AnchorTick /\ AnchorOthers

SpecAnchor == AnchorInit /\ [][AnchorNext]_vars

-----------------------------------------------------------------------------
(* Sequence exercise: one connected NetworkSender used by two threads of   *)
(* HostMode at once: the capture thread calls sendAudio (onAudioFrame) and *)
(* the encode thread calls sendVideo (onEncodedFrame).  Every step is the  *)
(* increment of sequenceNumber_ or one turn of the fragment loop.  Here    *)
(* sequenceNumber_ is kept at its width, as a 4-byte numeral.              *)

SeqThreads == {"capture", "encode"}

\* the counter when the exercise begins: fresh, or two short of 2^32
SeqStarts == {Num(0, 4), <<255, 255, 255, 254>>}

\* frame k sent by thread t: audio in one fragment from the capture thread,
\* video in two fragments from the encode thread
SeqFrame(t, k) ==
    IF t = "capture" THEN AudioFrame(4, k, FrameTimestamp(2 * k + 1))
    ELSE VideoFrame(MAX_UDP_PAYLOAD + 1, k, k = 0, FrameTimestamp(2 * k))

NewSeqThreads ==
    [pc |-> [t \in SeqThreads |-> "idle"],
     seqNum |-> [t \in SeqThreads |-> Num(0, 4)],
     i |-> [t \in SeqThreads |-> 0],
     call |-> [t \in SeqThreads |-> 0],
     handled |-> [t \in SeqThreads |-> 0],
     calls |-> <<>>]

\* sendAudio / sendVideo is called on thread t and finds the sender connected
SeqEnter(t) ==
    /\ threads.pc[t] = "idle"
    /\ threads.handled[t] < MaxHandled
    /\ sender.connected_
    /\ threads' = [threads EXCEPT !.pc[t] = "increment"]
    /\ UNCHANGED <<sender, channel>>

\* `const uint32_t seqNum = ++sequenceNumber_`
SeqIncrement(t) ==
    /\ threads.pc[t] = "increment"
    /\ LET seqNum == PreIncrement32(sender.sequenceNumber_)
           frame == SeqFrame(t, threads.handled[t])
       IN  /\ sender' = [sender EXCEPT !.sequenceNumber_ = seqNum]
           /\ threads' = [threads EXCEPT
                             !.pc[t] = "loop", !.seqNum[t] = seqNum, !.i[t] = 0,
                             !.call[t] = Len(threads.calls) + 1,
                             !.calls = Append(@, [by |-> t, frame |-> frame,
                                                  before |-> sender.sequenceNumber_,
                                                  seqNum |-> seqNum])]
    /\ UNCHANGED channel

\* one turn of the fragment loop, or its end (stats_.framesSent++)
SeqFragment(t) ==
    /\ threads.pc[t] = "loop"
    /\ LET frame == threads.calls[threads.call[t]].frame
           fragmentCount == calculateFragmentCount(Len(frame.data))
           i == threads.i[t]
       IN  IF i >= fragmentCount
           THEN /\ sender' = [sender EXCEPT !.stats_.framesSent = @ + 1]
                /\ threads' = [threads EXCEPT !.pc[t] = "idle", !.handled[t] = @ + 1]
                /\ UNCHANGED channel
           ELSE LET p == sendPacket(sender,
                                    SequencedPacket(threads.seqNum[t], frame, i, fragmentCount),
                                    "sent")
                IN  /\ sender' = p.s
                    /\ channel' = Append(channel, [bytes |-> p.wire[1], of |-> threads.call[t]])
                    /\ threads' = [threads EXCEPT !.i[t] = i + 1]

SeqOthers ==
    UNCHANGED <<littleEndian, codecVars, reasmVars, sent, net, receiver, datagram, callbacks,
                host, joinVars, hostLife, joinLife, encVars, decVars>>

SeqInit ==
    /\ littleEndian = TRUE
    /\ CodecIdle /\ ReasmIdle /\ HostIdle /\ JoinIdle /\ EncoderIdle /\ DecoderIdle
    /\ hostLife = NewHostLife
    /\ joinLife = NewJoinLife
    /\ threads = NewSeqThreads
    /\ \E start \in SeqStarts :
          sender = [connect(NewSender(CONFIG_MTU), "ok").s EXCEPT !.sequenceNumber_ = start]
    /\ sent = <<>>
    /\ channel = <<>>
    /\ net = NewNet
    /\ receiver = NewReceiver
    /\ datagram = nullopt
    /\ callbacks = NewCallbacks

SeqNext ==
    \/ (\E t \in SeqThreads : SeqEnter(t)) /\ SeqOthers
    \/ (\E t \in SeqThreads : SeqIncrement(t)) /\ SeqOthers
    \/ (\E t \in SeqThreads : SeqFragment(t)) /\ SeqOthers

SpecSeq == SeqInit /\ [][SeqNext]_vars

-----------------------------------------------------------------------------
(* Frame-size exercise: sendVideo and sendAudio on a connected sender with *)
(* frames given by their size alone, from the empty frame to frames of     *)
(* more than 65535 fragments; every send() is accepted.                    *)

\* frame sizes: none, one fragment, exactly one, two, three fragments, the
\* first sizes of 65536 and of 65537 fragments
FrameSizes ==
    {0, 4, MAX_UDP_PAYLOAD, MAX_UDP_PAYLOAD + 1, 2 * MAX_UDP_PAYLOAD + 1,
     65535 * MAX_UDP_PAYLOAD + 1, 65536 * MAX_UDP_PAYLOAD + 1}

\* one sendVideo / sendAudio call
SizedCall(type, size) ==
    /\ Len(sent) < MaxSends
    /\ LET n == Len(sent) + 1
           frame == [(IF type = Video THEN VideoFrame(0, n, n % 2 = 1, FrameTimestamp(n))
                      ELSE AudioFrame(0, n, FrameTimestamp(n))) EXCEPT !.data = <<>>]
           res == sendSized(sender, frame, size)
       IN  /\ sender' = res.s
           /\ sent' = Append(sent, [frame |-> frame, size |-> size,
                                    seqNum |-> res.s.sequenceNumber_, ok |-> res.ok,
                                    wire |-> res.wire])
    /\ UNCHANGED <<littleEndian, lifeVars, encVars, decVars, codecVars, reasmVars, channel, net, receiver,
                   datagram, callbacks, host, joinVars>>

SizesInit ==
    /\ littleEndian = TRUE
    /\ CodecIdle /\ ReasmIdle /\ HostIdle /\ JoinIdle /\ LifeIdle /\ EncoderIdle /\ DecoderIdle
    /\ sender = connect(NewSender(DEFAULT_MTU), "ok").s
    /\ sent = <<>>
    /\ channel = <<>>
    /\ net = NewNet
    /\ receiver = NewReceiver
    /\ datagram = nullopt
    /\ callbacks = NewCallbacks

SizesNext == \E type \in {Video, Audio}, size \in FrameSizes : SizedCall(type, size)

SpecSizes == SizesInit /\ [][SizesNext]_vars

-----------------------------------------------------------------------------
(* Statistics exercise: the receive thread of a NetworkReceiver passes     *)
(* video datagrams to processPacket while the pipeline thread, in the main *)
(* loop of JoinMode::start, copies the statistics of the video reassembler *)
(* for its periodic report.  Every step is one access to one counter.      *)

\* the getVideoReassemblerStats calls made at most
MaxReads == 1

\* the datagrams of video frame 1 (two fragments) and video frame 3 (one)
StatsPackets ==
    FramePackets(1, VideoFrame(MAX_UDP_PAYLOAD + 1, 3, TRUE, 10000000))
        \o FramePackets(3, VideoFrame(4, 7, FALSE, 10333333))

\* the members of FrameReassembler::Stats in the order addPacket writes them
StatsFields ==
    <<"packetsReceived", "framesDropped", "totalFragmentsReceivedBeforeDrop",
      "totalFragmentsExpectedBeforeDrop", "packetsDuplicate", "framesCompleted">>

NewStatsThreads ==
    [pc |-> [receive |-> "idle", main |-> "sleep"],
     k |-> 0,
     before |-> NewReceiver,
     target |-> [rx |-> NewReceiver, video |-> nullopt, audio |-> nullopt],
     copied |-> {},
     snapshot |-> NewStats,
     snapshots |-> <<>>,
     held |-> {NewStats}]

\* receiveLoop calls processPacket with datagram k; target is what the call
\* is going to leave behind
StatsEnter(k) ==
    /\ threads.pc.receive = "idle"
    /\ receiver.stats_.packetsReceived < MaxHandled
    /\ threads' = [threads EXCEPT
                      !.pc.receive = "addPacket", !.k = k, !.before = receiver,
                      !.target = processPacket(receiver, StatsPackets[k],
                                               Len(StatsPackets[k]), 0, 0)]
    /\ UNCHANGED <<receiver, callbacks, datagram>>

\* the next write of addPacket to a counter of stats_, or, after the last,
\* the rest of processPacket
StatsWrite ==
    /\ threads.pc.receive = "addPacket"
    /\ LET data == StatsPackets[threads.k]
           target == threads.target
           now_ == receiver.videoReassembler_.stats_
           then_ == target.rx.videoReassembler_.stats_
           left == {i \in 1..Len(StatsFields) : now_[StatsFields[i]] # then_[StatsFields[i]]}
       IN  IF left # {}
           THEN LET f == StatsFields[CHOOSE i \in left : \A j \in left : i <= j]
                    written == [now_ EXCEPT ![f] = then_[f]]
                IN  /\ receiver' = [receiver EXCEPT !.videoReassembler_.stats_ = written]
                    /\ threads' = [threads EXCEPT !.held = @ \cup {written}]
                    /\ UNCHANGED <<callbacks, datagram>>
           ELSE /\ receiver' = target.rx
                /\ callbacks' = [video |-> callbacks.video \o target.video,
                                 audio |-> callbacks.audio \o target.audio]
                /\ datagram' = Some([bytes |-> data, sendTimestamp |-> 0,
                                     before |-> threads.before,
                                     delivered |-> Len(callbacks.video) + Len(callbacks.audio)])
                /\ threads' = [threads EXCEPT !.pc.receive = "idle"]

\* the main loop of JoinMode::start calls getVideoReassemblerStats
StatsRead ==
    /\ threads.pc.main = "sleep"
    /\ Len(threads.snapshots) < MaxReads
    /\ threads' = [threads EXCEPT !.pc.main = "copy", !.copied = {}]
    /\ UNCHANGED <<receiver, callbacks, datagram>>

\* `return stats_`: one member is copied; the copy is complete after the last
StatsCopy(f) ==
    /\ threads.pc.main = "copy"
    /\ f \notin threads.copied
    /\ LET snapshot == [threads.snapshot EXCEPT ![f] = receiver.videoReassembler_.stats_[f]]
           copied == threads.copied \cup {f}
       IN  threads' =
              IF copied = Range(StatsFields)
              THEN [threads EXCEPT !.pc.main = "sleep", !.copied = copied,
                                   !.snapshot = snapshot,
                                   !.snapshots = Append(@, snapshot)]
              ELSE [threads EXCEPT !.copied = copied, !.snapshot = snapshot]
    /\ UNCHANGED <<receiver, callbacks, datagram>>

StatsOthers ==
    UNCHANGED <<littleEndian, codecVars, reasmVars, sender, sent, channel, net, host, joinVars,
                hostLife, joinLife, encVars, decVars>>

StatsInit ==
    /\ littleEndian = TRUE
    /\ CodecIdle /\ ReasmIdle /\ HostIdle /\ JoinIdle /\ EncoderIdle /\ DecoderIdle
    /\ hostLife = NewHostLife
    /\ joinLife = NewJoinLife
    /\ threads = NewStatsThreads
    /\ sender = NewSender(DEFAULT_MTU)
    /\ sent = <<>>
    /\ channel = <<>>
    /\ net = NewNet
    /\ receiver = NewReceiver
    /\ datagram = nullopt
    /\ callbacks = NewCallbacks

StatsNext ==
    \/ (\E k \in 1..Len(StatsPackets) : StatsEnter(k)) /\ StatsOthers
    \/ StatsWrite /\ StatsOthers
    \/ StatsRead /\ StatsOthers
    \/ (\E f \in Range(StatsFields) : StatsCopy(f)) /\ StatsOthers

SpecStats == StatsInit /\ [][StatsNext]_vars

-----------------------------------------------------------------------------
(* Encoder exercise, the setting of encoder_test.cpp: an encoder is        *)
(* configured, frames are submitted, keyframes are forced, and the codec   *)
(* returns one packet per frame, length-prefixed or with start codes.      *)

\* the frames submitted at most
MaxFrames == 10

\* config.keyframeInterval; encoder_test.cpp uses 5
KeyframeIntervals == {2, 5}

\* NAL units: header byte, then payload bytes free of start codes
SPS == <<103, 66, 0, 30, 172>>
PPS == <<104, 206, 60, 128>>
Nal(first, size) == <<first>> \o [i \in 1..(size - 1) |-> 128]
IdrSlice(size) == Nal(101, size)
NonIdrSlice(size) == Nal(65, size)

\* sizes of the slice NAL unit of a packet
SliceSizes == {3, 256}

\* the forms in which a codec hands out parameter sets and packets
Forms == {"AVCC", "AnnexB4", "AnnexB3"}

\* NAL units nals in the given form
RECURSIVE Framed(_, _)
Framed(nals, form) ==
    IF nals = <<>> THEN <<>>
    ELSE (CASE form = "AVCC" -> Num(Len(nals[1]), 4)
            [] form = "AnnexB4" -> StartCode4
            [] form = "AnnexB3" -> StartCode3) \o nals[1] \o Framed(Tail(nals), form)

\* codecCtx_->extradata after avcodec_open2 with AV_CODEC_FLAG_GLOBAL_HEADER:
\* an avcC record, or the parameter sets behind 4-byte start codes
Extradata(form) ==
    IF form = "AVCC"
    THEN <<1, 66, 0, 30, 255, 225>> \o Num(Len(SPS), 2) \o SPS
            \o <<1>> \o Num(Len(PPS), 2) \o PPS
    ELSE Framed(<<SPS, PPS>>, form)

\* the packet avcodec_receive_packet returns for a frame
Packet(key, size, form, pts) ==
    LET nals == <<IF key THEN IdrSlice(size) ELSE NonIdrSlice(size)>>
    IN  [key |-> key, nals |-> nals, form |-> form, data |-> Framed(nals, form), pts |-> pts]

\* the forceKeyframe(), reset() and failing encodeWithStride() calls made
\* at most
MaxEvents == 1

\* the entries of the call history that are frames handed to the codec
IsSubmitted(call) == call.op \in {"frame", "sendFailed"}

Events == Cardinality({k \in 1..Len(encoderCalls) : encoderCalls[k].op # "frame"})
Submitted == SelectSeq(encoderCalls, IsSubmitted)

Call(op) == [op |-> op, keyframe |-> FALSE, forced |-> encoder.forceNextKeyframe_,
             frameNumber |-> encoder.frameNumber_]

\* HostMode::encodeLoop configures the encoder on the first frame
EncConfigure(keyframeInterval, codec, ok) ==
    /\ ~encoder.configured_
    /\ encoder' = configure(encoder, keyframeInterval, codec, ok)
    /\ encoderCalls' = <<>>
    /\ emitted' = nullopt

\* VideoEncoder::encodeWithStride: the conversion fails, avcodec_send_frame
\* fails, or the codec takes the frame and returns its packet
EncodeWithStride(outcome) ==
    /\ encoder.configured_
    /\ Len(Submitted) < MaxFrames
    /\ outcome # "ok" => Events < MaxEvents
    /\ IF outcome = "convert"
       THEN /\ encoderCalls' = Append(encoderCalls, Call("convertFailed"))
            /\ UNCHANGED <<encoder, emitted>>
       ELSE LET key == KeyframeRequested(encoder)
                e1 == requestFrame(encoder)
            IN  IF outcome = "send"
                THEN /\ encoder' = e1
                     /\ encoderCalls' = Append(encoderCalls,
                                           [Call("sendFailed") EXCEPT !.keyframe = key])
                     /\ UNCHANGED emitted
                ELSE LET packet == Packet(key, encoder.codecCtx_.sliceSize,
                                          encoder.codecCtx_.form, Len(Submitted))
                         res == processEncodedPacket(e1, packet)
                     IN  /\ encoder' = res.e
                         /\ encoderCalls' = Append(encoderCalls,
                                              [Call("frame") EXCEPT !.keyframe = key])
                         /\ emitted' = Some([frame |-> res.frame, packet |-> packet])

EncForceKeyframe ==
    /\ encoder.configured_
    /\ Events < MaxEvents
    /\ encoder' = forceKeyframe(encoder)
    /\ encoderCalls' = Append(encoderCalls, Call("forceKeyframe"))
    /\ UNCHANGED emitted

EncReset ==
    /\ encoder.configured_
    /\ Events < MaxEvents
    /\ encoder' = reset(encoder)
    /\ encoderCalls' = Append(encoderCalls, Call("reset"))
    /\ UNCHANGED emitted

EncoderOthers ==
    UNCHANGED <<littleEndian, codecVars, reasmVars, netVars, host, joinVars, lifeVars, decVars>>

EncoderInit ==
    /\ littleEndian = TRUE
    /\ CodecIdle /\ ReasmIdle /\ NetIdle /\ HostIdle /\ JoinIdle /\ LifeIdle
    /\ EncoderIdle /\ DecoderIdle

\* the codecs avcodec_open2 may have opened
Codecs ==
    {[extradata |-> Extradata(x), form |-> f, sliceSize |-> s] :
        x \in {"AVCC", "AnnexB4"}, f \in Forms, s \in SliceSizes}

EncoderNext ==
    \/ (\E k \in KeyframeIntervals, codec \in Codecs, ok \in BOOLEAN :
           EncConfigure(k, codec, ok)) /\ EncoderOthers
    \/ (\E outcome \in {"ok", "convert", "send"} : EncodeWithStride(outcome)) /\ EncoderOthers
    \/ EncForceKeyframe /\ EncoderOthers
    \/ EncReset /\ EncoderOthers

SpecEncoder == EncoderInit /\ [][EncoderNext]_vars

-----------------------------------------------------------------------------
(* Lazy configuration exercise: a running sending orchestrator, the NDI    *)
(* receiver delivering frames that carry a frame rate or none, and the     *)
(* encode thread taking them from the queue.  encoderCalls is the history  *)
(* of the calls the encode thread makes on the encoder.                    *)

\* frame_rate_N / frame_rate_D of the captured frames; <<0, 0>> is a source
\* that announces no rate
FrameRates == {<<0, 0>>, <<25, 1>>, <<30000, 1001>>}

\* the n-th frame the NDI receiver captures, with the given frame rate
RatedFrame(n, rate) ==
    [timestamp |-> n, data |-> <<>>, frameRateN |-> rate[1], frameRateD |-> rate[2]]

\* VideoEncoderConfig as default-constructed
VideoEncoderConfig == [fps |-> 60, keyframeInterval |-> 60]

\* encodeLoop: the VideoEncoderConfig built from the dequeued frame
encConfig(frame) ==
    IF frame.frameRateD > 0 /\ frame.frameRateN > 0
    THEN LET fps == frame.frameRateN \div frame.frameRateD
         IN  [fps |-> fps, keyframeInterval |-> fps]
    ELSE VideoEncoderConfig

\* the codec avcodec_open2 opens in this exercise
LazyCodec == [extradata |-> Extradata("AnnexB4"), form |-> "AnnexB4", sliceSize |-> 3]

\* an entry of the history: configure(cfg) with its result, or
\* encodeWithStride on an encoder whose config_ is cfg, and whether an
\* EncodedFrame came out of it
LazyCall(op, frame, cfg, ok) ==
    [op |-> op, frame |-> frame, fps |-> IF op = "configure" THEN cfg.fps ELSE 0,
     keyframeInterval |-> cfg.keyframeInterval, ok |-> ok]

FailedConfigures ==
    Cardinality({k \in 1..Len(encoderCalls) :
                    encoderCalls[k].op = "configure" /\ ~encoderCalls[k].ok})

LazyOthers ==
    UNCHANGED <<littleEndian, codecVars, reasmVars, netVars, joinVars, lifeVars, decVars>>

\* the NDI receiver thread delivers a captured frame: HostMode::onVideoFrame
LazyCapture(rate) ==
    /\ host.running_
    /\ host.videoFramesReceived_ < MaxCaptured
    /\ host' = HostMode_onVideoFrame(host, RatedFrame(host.videoFramesReceived_ + 1, rate))
    /\ UNCHANGED encVars

\* HostMode::onEncodedFrame with a sender that is not connected
HostMode_onEncodedFrame(h) == [h EXCEPT !.videoFramesEncoded_ = @ + 1]

\* one iteration of HostMode::encodeLoop after the frame left the queue:
\* the host, the encoder and the calls made on the encoder.  configure()
\* returns ok; the codec hands out an EncodedFrame for the frame (yields) or
\* keeps it
encodeLoop(h, e, frame, ok, yields) ==
    LET encoded(h1, e1) ==
            [host |-> IF yields THEN HostMode_onEncodedFrame(h1) ELSE h1,
             encoder |-> requestFrame(e1),
             calls |-> <<LazyCall("encode", frame, e1.config_, yields)>>]
    IN  IF ~h.encoderConfigured_
        THEN LET cfg == encConfig(frame)
                 e1 == configure(e, cfg.keyframeInterval, LazyCodec, ok)
                 configured == LazyCall("configure", frame, cfg, ok)
             IN  IF ~ok
                 THEN [host |-> h, encoder |-> e1, calls |-> <<configured>>]
                 ELSE LET res == encoded([h EXCEPT !.encoderConfigured_ = TRUE], e1)
                      IN  [res EXCEPT !.calls = <<configured>> \o @]
        ELSE encoded(h, e)

\* the encode thread takes the front frame of the queue and handles it;
\* configure() succeeds or fails
LazyEncodeStep(ok, yields) ==
    /\ host.running_
    /\ host.frameQueue_ # <<>>
    /\ ~ok => (~host.encoderConfigured_ /\ FailedConfigures < MaxFaults /\ ~yields)
    /\ LET frame == Head(host.frameQueue_)
           res == encodeLoop([host EXCEPT !.frameQueue_ = Tail(@)], encoder, frame, ok, yields)
       IN  /\ host' = res.host
           /\ encoder' = res.encoder
           /\ encoderCalls' = encoderCalls \o res.calls
    /\ UNCHANGED emitted

LazyInit ==
    /\ littleEndian = TRUE
    /\ CodecIdle /\ ReasmIdle /\ NetIdle /\ JoinIdle /\ LifeIdle /\ EncoderIdle /\ DecoderIdle
    /\ host = [NewHostMode EXCEPT !.running_ = TRUE]

LazyNext ==
    \/ (\E rate \in FrameRates : LazyCapture(rate)) /\ LazyOthers
    \/ (\E ok, yields \in BOOLEAN : LazyEncodeStep(ok, yields)) /\ LazyOthers

SpecLazy == LazyInit /\ [][LazyNext]_vars

-----------------------------------------------------------------------------
(* Queue accounting exercise: a running sending orchestrator whose NDI     *)
(* receiver thread is inside or outside HostMode::onVideoFrame while the   *)
(* encode thread takes frames from the queue.  The callback is two steps:  *)
(* the increment of the atomic videoFramesReceived_, and the block under   *)
(* queueMutex_.  threads.dequeued is the history of the frames the encode  *)
(* thread took.                                                            *)

\* frame rates of the captured frames in this exercise
AccountRates == {<<0, 0>>, <<25, 1>>}

NewAccountThreads == [pc |-> "idle", frame |-> nullopt, dequeued |-> <<>>]

\* HostMode::onVideoFrame up to the lock_guard: videoFramesReceived_++
AccountEnter(rate) ==
    /\ host.running_
    /\ threads.pc = "idle"
    /\ host.videoFramesReceived_ < MaxCaptured
    /\ host' = [host EXCEPT !.videoFramesReceived_ = @ + 1]
    /\ threads' = [threads EXCEPT
                      !.pc = "counted",
                      !.frame = Some(RatedFrame(host.videoFramesReceived_ + 1, rate))]
    /\ UNCHANGED encVars

\* HostMode::onVideoFrame, the block holding queueMutex_: drop the oldest
\* frame of a full queue, push the new one
AccountPush ==
    /\ threads.pc = "counted"
    /\ host' = [HostMode_onVideoFrame(host, threads.frame[1]) EXCEPT
                   !.videoFramesReceived_ = host.videoFramesReceived_]
    /\ threads' = [threads EXCEPT !.pc = "idle", !.frame = nullopt]
    /\ UNCHANGED encVars

\* one iteration of HostMode::encodeLoop: the front frame leaves the queue
\* under queueMutex_ and is handled
AccountEncode(ok, yields) ==
    /\ LazyEncodeStep(ok, yields)
    /\ threads' = [threads EXCEPT !.dequeued = Append(@, Head(host.frameQueue_))]

AccountOthers ==
    UNCHANGED <<littleEndian, codecVars, reasmVars, netVars, joinVars, hostLife, joinLife, decVars>>

AccountInit ==
    /\ littleEndian = TRUE
    /\ CodecIdle /\ ReasmIdle /\ NetIdle /\ JoinIdle /\ EncoderIdle /\ DecoderIdle
    /\ hostLife = NewHostLife
    /\ joinLife = NewJoinLife
    /\ threads = NewAccountThreads
    /\ host = [NewHostMode EXCEPT !.running_ = TRUE]

AccountNext ==
    \/ (\E rate \in AccountRates : AccountEnter(rate)) /\ AccountOthers
    \/ AccountPush /\ AccountOthers
    \/ (\E ok, yields \in BOOLEAN : AccountEncode(ok, yields)) /\ AccountOthers

SpecAccount == AccountInit /\ [][AccountNext]_vars

-----------------------------------------------------------------------------
(* Decoder exercise: a decoder is configured, access units arrive in any   *)
(* order (a stream joined in the middle, parameter sets in their own       *)
(* packets or in front of a keyframe), and the decoder is reset or         *)
(* configured again.                                                       *)

\* the decode() calls made at most
MaxDecodes == 3

\* the reset() calls and the configure() calls after the first made at most
MaxResets == 1

\* the access units of the exercise: the NAL units of each and their framing
DecoderUnits ==
    {[nals |-> n, form |-> "AnnexB4"] :
        n \in {<<SPS>>, <<PPS>>, <<SPS, PPS, IdrSlice(3)>>, <<PPS, SPS, IdrSlice(3)>>,
               <<NonIdrSlice(3)>>}}
      \cup {[nals |-> <<SPS, PPS, IdrSlice(3)>>, form |-> "AnnexB3"]}

\* the NAL unit types of an access unit
RECURSIVE TypesOf(_)
TypesOf(nals) == IF nals = <<>> THEN <<>> ELSE <<Head(nals)[1] % 32>> \o TypesOf(Tail(nals))

Decodes == Cardinality({k \in 1..Len(decoderCalls) : decoderCalls[k].op = "decode"})
Resets == Len(decoderCalls) - Decodes

DecoderCall(op, types, res) ==
    [op |-> op, types |-> types, ret |-> res.ret, sent |-> res.sent, frames |-> res.frames,
     errors |-> res.d.stats_.decodeErrors - decoder.stats_.decodeErrors,
     ready |-> res.d.decoderReady_]

\* JoinMode::start configures the decoder; a later configure() starts over
DecConfigure(ok) ==
    /\ decoderCalls # <<>> => Resets <= MaxResets
    /\ LET d == VideoDecoder_configure(decoder, ok)
       IN  /\ decoder' = d
           /\ decoderCalls' = Append(decoderCalls,
                 DecoderCall("configure", <<>>,
                             [d |-> [d EXCEPT !.stats_ = decoder.stats_], ret |-> ok,
                              sent |-> FALSE, frames |-> 0]))

\* VideoDecoder::reset
DecReset ==
    /\ decoder.configured_
    /\ Resets <= MaxResets
    /\ LET d == VideoDecoder_reset(decoder)
       IN  /\ decoder' = d
           /\ decoderCalls' = Append(decoderCalls,
                 DecoderCall("reset", <<>>,
                             [d |-> d, ret |-> TRUE, sent |-> FALSE, frames |-> 0]))

\* JoinMode::decodeLoop passes a received frame to VideoDecoder::decode
DecDecode(unit, codec) ==
    /\ decoder.configured_
    /\ Decodes < MaxDecodes
    /\ LET res == decode(decoder, Framed(unit.nals, unit.form), codec)
       IN  /\ decoder' = res.d
           /\ decoderCalls' = Append(decoderCalls,
                                     DecoderCall("decode", TypesOf(unit.nals), res))

DecoderOthers ==
    UNCHANGED <<littleEndian, codecVars, reasmVars, netVars, host, joinVars, lifeVars, encVars>>

DecoderInit ==
    /\ littleEndian = TRUE
    /\ CodecIdle /\ ReasmIdle /\ NetIdle /\ HostIdle /\ JoinIdle /\ LifeIdle
    /\ EncoderIdle /\ DecoderIdle

DecoderNext ==
    \/ (\E ok \in BOOLEAN : DecConfigure(ok)) /\ DecoderOthers
    \/ DecReset /\ DecoderOthers
    \/ (\E unit \in DecoderUnits, codec \in CodecOutcomes : DecDecode(unit, codec))
          /\ DecoderOthers

SpecDecoder == DecoderInit /\ [][DecoderNext]_vars

-----------------------------------------------------------------------------
(* Properties of the codec exercise (SpecCodec) *)

\* C6: header round-trip. For every header whose magic and version are the
\* protocol constants, deserialize(serialize(h)) succeeds and returns a header
\* equal to h in every field.
C6_HeaderRoundTrip ==
    (pc = "deserialized" /\ header.magic = PROTOCOL_MAGIC
                         /\ header.version = PROTOCOL_VERSION) =>
        /\ has_value(parsed)
        /\ value_of(parsed).magic = header.magic
        /\ value_of(parsed).version = header.version
        /\ value_of(parsed).sequenceNumber = header.sequenceNumber
        /\ value_of(parsed).timestamp = header.timestamp
        /\ value_of(parsed).totalSize = header.totalSize
        /\ value_of(parsed).fragmentIndex = header.fragmentIndex
        /\ value_of(parsed).fragmentCount = header.fragmentCount
        /\ value_of(parsed).payloadSize = header.payloadSize
        /\ value_of(parsed).mediaType = header.mediaType
        /\ value_of(parsed).sourceId = header.sourceId
        /\ value_of(parsed).flags = header.flags
        /\ value_of(parsed).sampleRate = header.sampleRate
        /\ value_of(parsed).channels = header.channels

C6_Witness ==
    /\ pc = "deserialized"
    /\ littleEndian
    /\ has_value(parsed)
    /\ header.timestamp = <<255, 1, 2, 3, 4, 5, 6, 128>>
    /\ header.fragmentIndex = <<255, 254>>
    /\ header.mediaType = Audio

\* C7: header byte layout. serialize produces exactly 38 bytes; every field
\* sits at its documented offset, most significant byte first, and bytes
\* 35-37 are zero.
C7_HeaderByteLayout ==
    (pc \in {"serialized", "deserialized"}) =>
        /\ Len(buffer) = 38
        /\ BytesAt(buffer, 0, 4) = header.magic
        /\ buffer[4 + 1] = header.version
        /\ buffer[5 + 1] = header.mediaType
        /\ buffer[6 + 1] = header.sourceId
        /\ buffer[7 + 1] = header.flags
        /\ BytesAt(buffer, 8, 4) = header.sequenceNumber
        /\ BytesAt(buffer, 12, 8) = header.timestamp
        /\ BytesAt(buffer, 20, 4) = header.totalSize
        /\ BytesAt(buffer, 24, 2) = header.fragmentIndex
        /\ BytesAt(buffer, 26, 2) = header.fragmentCount
        /\ BytesAt(buffer, 28, 2) = header.payloadSize
        /\ BytesAt(buffer, 30, 4) = header.sampleRate
        /\ buffer[34 + 1] = header.channels
        /\ BytesAt(buffer, 35, 3) = <<0, 0, 0>>

C7_Witness ==
    /\ pc = "serialized"
    /\ littleEndian
    /\ header.timestamp = <<255, 1, 2, 3, 4, 5, 6, 128>>
    /\ header.sequenceNumber = <<128, 1, 2, 255>>
    /\ header.sampleRate = Num(48000, 4)

-----------------------------------------------------------------------------
(* Properties of the reassembler exercise (SpecReasm) *)

NA == calculateFragmentCount(Len(pool.A.data))
NB == calculateFragmentCount(Len(pool.B.data))

CallsOfA == {j \in 1..Len(calls) : calls[j] <= NA}
CallsOfB == {j \in 1..Len(calls) : calls[j] > NA}
ReceivedOfA == {calls[j] : j \in CallsOfA}
NoRepeat(js) == \A i, j \in js : i # j => calls[i] # calls[j]
LastRet == rets[Len(rets)]

\* the calls so far are fragments of A only, each at most once
OnlyAOnce == CallsOfB = {} /\ NoRepeat(CallsOfA)

\* C1: reassembly under permutation. When the fragments of one frame are
\* passed to a fresh reassembler in any order, each once and nothing else,
\* every call but the last returns no frame and the last returns the frame
\* with the original bytes, timestamp and keyframe flag; then
\* framesCompleted = 1 and framesDropped = 0.
C1_ReassemblyUnderPermutation ==
    OnlyAOnce =>
        /\ \A j \in 1..Len(calls) : j < NA => rets[j] = nullopt
        /\ (Len(calls) = NA /\ NA > 0) =>
              /\ has_value(LastRet)
              /\ value_of(LastRet).data = pool.A.data
              /\ value_of(LastRet).timestamp = pool.A.timestamp
              /\ value_of(LastRet).isKeyframe = pool.A.isKeyframe
              /\ reassembler.stats_.framesCompleted = 1
              /\ reassembler.stats_.framesDropped = 0

C1_Witness ==
    /\ OnlyAOnce
    /\ NA = 3
    /\ calls = <<3, 1, 2>>
    /\ has_value(LastRet)

\* Some fragments of A (possibly repeated, not all of them) arrived, then
\* fragments of B, each at most once; nothing of A after B began.
LossOfA ==
    /\ CallsOfB # {}
    /\ \A i \in CallsOfA, j \in CallsOfB : i < j
    /\ ReceivedOfA # 1..NA
    /\ NoRepeat(CallsOfB)

LossOutcome ==
    /\ \A j \in 1..Len(rets) :
          has_value(rets[j]) => value_of(rets[j]).sequenceNumber # Num(SeqA, 4)
    /\ reassembler.stats_.framesDropped = 1
    /\ reassembler.stats_.totalFragmentsReceivedBeforeDrop = Cardinality(ReceivedOfA)
    /\ reassembler.stats_.totalFragmentsExpectedBeforeDrop = NA
    /\ Cardinality(CallsOfB) < NB => LastRet = nullopt
    /\ Cardinality(CallsOfB) = NB =>
          /\ has_value(LastRet)
          /\ value_of(LastRet).sequenceNumber = Num(SeqB, 4)
          /\ value_of(LastRet).data = pool.B.data
          /\ reassembler.stats_.framesCompleted = 1

\* C2 as stated: reassembly under loss. If at least one fragment of A never
\* arrives and a fragment of B then arrives, no frame is returned for A,
\* framesDropped increases by exactly 1, the two fragment totals increase by
\* the number of distinct fragments of A received and by A's fragmentCount,
\* and B completes once all of its fragments have arrived.
C2_Original == LossOfA => LossOutcome

\* C2 amended: the same, provided at least one fragment of A was received,
\* so that A is the pending frame when B begins.
C2_ReassemblyUnderLoss == (LossOfA /\ ReceivedOfA # {}) => LossOutcome

C2_Witness ==
    /\ LossOfA
    /\ NA = 3
    /\ calls = <<1, 3, 5, 4>>
    /\ has_value(LastRet)
    /\ reassembler.stats_.totalFragmentsReceivedBeforeDrop = 2

\* C3 as stated: duplicate tolerance. A fragment delivered a second time for
\* the same sequence, wherever the second copy arrives, increases
\* packetsDuplicate by exactly 1, returns no frame and leaves the pending
\* frame (buffer, receivedCount) and the completion state unchanged.
C3_DuplicateTolerance ==
    (/\ CallsOfB = {}
     /\ Len(calls) >= 2
     /\ \E j \in 1..(Len(calls) - 1) : calls[j] = calls[Len(calls)]) =>
        /\ reassembler.stats_.packetsDuplicate = prev.stats_.packetsDuplicate + 1
        /\ LastRet = nullopt
        /\ reassembler.pending_ = prev.pending_
        /\ reassembler.stats_.framesCompleted = prev.stats_.framesCompleted

-----------------------------------------------------------------------------
(* Properties of the sender exercise (SpecSend) *)

CeilDiv(a, b) == (a + b - 1) \div b

\* the datagrams of call c on the path, in the order they were emitted
DatagramsOf(c) == SelectSeq(channel, LAMBDA d : d.of = c)

HeaderOf(d) == value_of(deserialize(d.bytes, Len(d.bytes)))
PayloadOf(d) == BytesAt(d.bytes, HEADER_SIZE, Len(d.bytes) - HEADER_SIZE)

RECURSIVE ConcatPayloads(_)
ConcatPayloads(ds) ==
    IF ds = <<>> THEN <<>> ELSE PayloadOf(Head(ds)) \o ConcatPayloads(Tail(ds))

\* C4 as stated: fragmentation coverage. For a frame of totalSize > 0 and
\* the configured mtu, with P = mtu - 38, a successful send whose datagrams
\* the socket all accepted emits exactly ceil(totalSize / P) datagrams, with
\* fragmentIndex 0..N-1 each once, every header carrying the same totalSize
\* and fragmentCount = N, and the payloads in index order are the frame.
C4_FragmentationCoverage ==
    \A c \in 1..Len(sent) :
        LET size == Len(sent[c].frame.data)
            P == sender.config_.mtu - HEADER_SIZE
            N == CeilDiv(size, P)
            ds == DatagramsOf(c)
        IN  (sent[c].ok /\ sent[c].wouldBlock = 0 /\ size > 0) =>
               /\ Len(ds) = N
               /\ \A k \in 1..Len(ds) :
                     /\ HeaderOf(ds[k]).fragmentIndex = Num(k - 1, 2)
                     /\ HeaderOf(ds[k]).fragmentCount = Num(N, 2)
                     /\ HeaderOf(ds[k]).totalSize = Num(size, 4)
               /\ ConcatPayloads(ds) = sent[c].frame.data

\* the last sendVideo / sendAudio call
LastSent == sent'[Len(sent')]

\* a step that is one sendVideo / sendAudio call
IsSendCall == Len(sent') = Len(sent) + 1

\* the datagrams the call of this step handed to the network
Emitted == SubSeq(channel', Len(channel) + 1, Len(channel'))

\* C15 as stated: a fragment whose send() answers EAGAIN / EWOULDBLOCK is
\* counted in packetsDroppedEagain and is not sent again; no error is
\* reported for it (no error callback, sendErrors unchanged); the fragments
\* after it are still sent, and a call in which nothing else goes wrong
\* returns success.
C15_WouldBlockIsSuccessfulDrop ==
    [][(IsSendCall /\ LastSent.connected /\ LastSent.wouldBlock > 0) =>
          /\ sender'.stats_.packetsDroppedEagain
                = sender.stats_.packetsDroppedEagain + LastSent.wouldBlock
          /\ LastSent.failed = 0 =>
                /\ LastSent.ok
                /\ sender'.stats_.sendErrors = sender.stats_.sendErrors
                /\ sender'.onError_ = sender.onError_
                /\ Len(Emitted) = calculateFragmentCount(Len(LastSent.frame.data))
                                     - LastSent.wouldBlock
                /\ sender'.stats_.packetsSent = sender.stats_.packetsSent + Len(Emitted)
                /\ \A i, k \in 1..Len(Emitted) :
                      i # k => HeaderOf(Emitted[i]).fragmentIndex
                                  # HeaderOf(Emitted[k]).fragmentIndex]_vars

\* the bytes of the datagrams ds
RECURSIVE BytesOf(_)
BytesOf(ds) == IF ds = <<>> THEN 0 ELSE Len(ds[1].bytes) + BytesOf(Tail(ds))

\* C16: when the send() of a fragment fails with an error other than
\* would-block, the call adds exactly 1 to sendErrors and calls the error
\* callback once; bytesSent and packetsSent grow only by the fragments sent
\* before it; the call returns false and framesSent stays; the sender stays
\* connected, and a later call in which every send() succeeds sends the
\* whole frame and returns true.
C16_HardSocketError ==
    [][IsSendCall =>
          /\ LastSent.failed = 1 =>
                /\ sender'.stats_.sendErrors = sender.stats_.sendErrors + 1
                /\ sender'.onError_ = Append(sender.onError_, "Send error")
                /\ sender'.stats_.packetsSent = sender.stats_.packetsSent + Len(Emitted)
                /\ sender'.stats_.bytesSent = sender.stats_.bytesSent + BytesOf(Emitted)
                /\ Len(Emitted) < calculateFragmentCount(Len(LastSent.frame.data))
                /\ ~LastSent.ok
                /\ sender'.stats_.framesSent = sender.stats_.framesSent
                /\ sender'.connected_
                /\ sender'.socket_ = sender.socket_
          /\ (sender.connected_ /\ LastSent.failed = 0 /\ LastSent.wouldBlock = 0) =>
                /\ LastSent.ok
                /\ Len(Emitted) = calculateFragmentCount(Len(LastSent.frame.data))
                /\ sender'.stats_.framesSent = sender.stats_.framesSent + 1
                /\ sender'.stats_.sendErrors = sender.stats_.sendErrors]_vars

\* a send() failed in the first call, and the second call sent its frame
C16_Witness ==
    /\ Len(sent) = 2
    /\ sent[1].failed = 1 /\ ~sent[1].ok
    /\ sent[2].connected /\ sent[2].ok /\ sent[2].emitted >= 1
    /\ sender.stats_.sendErrors = 1
    /\ sender.stats_.framesSent = 1

\* the sender is Disconnected: no open socket
Disconnected(s) == ~s.connected_ /\ s.socket_ = -1 /\ s.openSockets = 0

\* the sender is Connected: one open socket
Connected(s) == s.connected_ /\ s.socket_ >= 0 /\ s.openSockets = 1

\* C17: the sender is always Disconnected or Connected; connect() that
\* succeeds leaves it Connected with one socket also when it was Connected
\* before, connect() that fails leaves it Disconnected; disconnect() leaves
\* it Disconnected from either state and a second disconnect() changes
\* nothing; sendVideo / sendAudio of a Disconnected sender return false and
\* emit no datagram.
C17_ConnectionStateMachine ==
    /\ Disconnected(sender) \/ Connected(sender)
    /\ \A outcome \in ConnectOutcomes :
          LET c == connect(sender, outcome)
          IN  IF outcome = "ok"
              THEN c.ok /\ Connected(c.s) /\ c.s.onConnected_ = sender.onConnected_ + 1
              ELSE ~c.ok /\ Disconnected(c.s) /\ Len(c.s.onError_) = Len(sender.onError_) + 1
    /\ LET d == disconnect(sender)
       IN  Disconnected(d) /\ disconnect(d) = d
    /\ \A c \in 1..Len(sent) :
          ~sent[c].connected =>
              /\ ~sent[c].ok
              /\ sent[c].emitted = 0
              /\ DatagramsOf(c) = <<>>

\* a connect() failed, a connect() succeeded, and a frame was offered while
\* the sender was Disconnected
C17_Witness ==
    /\ Connected(sender)
    /\ sender.onConnected_ >= 1
    /\ ConnectFaults >= 1
    /\ \E c \in 1..Len(sent) : ~sent[c].connected

-----------------------------------------------------------------------------
(* Properties of the loopback exercise (SpecNet) *)

\* every datagram handed to send() was accepted, and all have arrived
AllSent == \A c \in 1..Len(sent) : sent[c].ok /\ sent[c].wouldBlock = 0
Quiescent == channel = <<>>

\* the callbacks made for the frame of call c
CallbacksOf(c) ==
    SelectSeq(IF sent[c].frame.type = Video THEN callbacks.video ELSE callbacks.audio,
              LAMBDA r : r.sequenceNumber = Num(sent[c].seqNum, 4))

\* call c's frame produced exactly one callback, with the frame's content
DeliveredOnce(c) ==
    LET f == sent[c].frame
        cbs == CallbacksOf(c)
    IN  /\ Len(cbs) = 1
        /\ cbs[1].data = f.data
        /\ cbs[1].timestamp = f.timestamp
        /\ IF f.type = Video THEN cbs[1].isKeyframe = f.isKeyframe
           ELSE cbs[1].sampleRate = f.sampleRate /\ cbs[1].channels = f.channels

-----------------------------------------------------------------------------
(* Properties of the join exercise (SpecJoin) *)

\* the receiver rejects the datagram: it does not deserialize, or isValid fails
Malformed(data) ==
    LET headerOpt == deserialize(data, Len(data))
    IN  ~has_value(headerOpt) \/ ~isValid(value_of(headerOpt))

\* C8 as stated: a malformed datagram increments invalidPackets by exactly 1,
\* reaches no reassembler, triggers no frame callback and changes no other
\* receiver state apart from the packet and byte receive counters.
C8_MalformedPacketsDropped ==
    (has_value(datagram) /\ Malformed(value_of(datagram).bytes)) =>
        LET d == value_of(datagram)
        IN  /\ receiver.stats_.invalidPackets = d.before.stats_.invalidPackets + 1
            /\ receiver.videoReassembler_ = d.before.videoReassembler_
            /\ receiver.audioReassembler_ = d.before.audioReassembler_
            /\ Len(callbacks.video) + Len(callbacks.audio) = d.delivered
            /\ receiver.stats_ =
                 [d.before.stats_ EXCEPT !.invalidPackets = @ + 1,
                                         !.packetsReceived = @ + 1,
                                         !.bytesReceived = @ + Len(d.bytes)]

NonDecreasing(s) == \A i \in 1..(Len(s) - 1) : LessEq64(s[i], s[i + 1])

\* C10 as stated: ordering within a stream. Whatever the path loses,
\* duplicates or reorders, the timestamps of the frames of one media type
\* reach the local sink in non-decreasing order, the sender having emitted
\* them with increasing timestamps.
C10_OrderingWithinStream == NonDecreasing(sink.video) /\ NonDecreasing(sink.audio)

\* the frames waiting in the two playout buffers, video first
Buffered == join.videoBuffer_ \o join.audioBuffer_

\* C11 as stated: playout monotonicity. In buffered mode, of any two frames
\* (video or audio) that were assigned a playTime, the one with the smaller
\* or equal timestamp has the smaller or equal playTime.
C11_PlayoutMonotonicity ==
    join.config_.bufferMs > 0 =>
        \A i, k \in 1..Len(Buffered) :
            LessEq64(Buffered[i].timestamp, Buffered[k].timestamp) =>
                LessEq64(Buffered[i].playTime, Buffered[k].playTime)

\* bufferStart + (timestamp - firstTimestamp)/10 + D*1000, in microseconds
ScheduledPlayTime(j, timestamp) ==
    ToInt(j.bufferStartTime_)
        + (ToInt(timestamp) - ToInt(j.firstFrameTimestamp_)) \div 10
        + j.config_.bufferMs * 1000

\* C12 as stated: buffered playout schedule. In buffered mode with
\* bufferMs = D every frame gets playTime = bufferStart + (timestamp -
\* firstTimestamp)/10 + D*1000, no frame reaches the sink while now <
\* playTime, and a wake-up of the playout thread delivers, in enqueue order,
\* the buffered frames whose playTime <= now.
C12_BufferedPlayoutSchedule ==
    [][join.config_.bufferMs > 0 =>
        LET nv == Len(join.videoBuffer_) - Len(join.videoBuffer_')
            na == Len(join.audioBuffer_) - Len(join.audioBuffer_')
            wakeUp == nv > 0 \/ na > 0
        IN  /\ \A i \in 1..Len(Buffered') :
                  Buffered'[i].playTime = Num(ScheduledPlayTime(join', Buffered'[i].timestamp), 8)
            /\ wakeUp =>
                  /\ \A i \in 1..nv : LessEq64(join.videoBuffer_[i].playTime, now)
                  /\ \A i \in 1..na : LessEq64(join.audioBuffer_[i].playTime, now)
                  /\ sink'.video = sink.video
                        \o [i \in 1..nv |-> join.videoBuffer_[i].timestamp]
                  /\ sink'.audio = sink.audio
                        \o [i \in 1..na |-> join.audioBuffer_[i].timestamp]
                  /\ \A i \in 1..Len(Buffered') : ~LessEq64(Buffered'[i].playTime, now)
            /\ ~wakeUp => sink' = sink]_vars

-----------------------------------------------------------------------------
(* Properties of the host stop exercise (SpecHostStop, FairHostStop) *)

\* the stop() calls that entered the teardown
HostTeardowns == {k \in 1..Len(hostLife.stopCalls) : hostLife.stopCalls[k].won}

\* C13: however the stop() calls of start()'s exit path, of BridgeManager
\* and of the destructor repeat and interleave, at most one of them enters
\* the teardown, and exactly one once running_ has gone back to false;
\* encodeThread_.join() is called at most once, by that caller; every other
\* call returns without using the thread, the condition variable or a
\* component.
C13_HostStopOnce ==
    /\ Cardinality(HostTeardowns) <= 1
    /\ (hostLife.start # "idle" /\ ~hostLife.running_) => Cardinality(HostTeardowns) = 1
    /\ Len(hostLife.joins) <= 1
    /\ \A k \in 1..Len(hostLife.stopCalls) :
          LET call == hostLife.stopCalls[k]
          IN  IF call.won
              THEN \A i \in 1..Len(hostLife.joins) : hostLife.joins[i] = call.by
              ELSE call.touched = {}

\* BridgeManager's call is in the teardown, waiting in join(), and the call
\* from start()'s exit path has meanwhile returned
C13_Witness ==
    /\ hostLife.stop["manager"] = "joining"
    /\ hostLife.stop["start"] = "done"
    /\ hostLife.joins = <<"manager">>
    /\ Cardinality(CallsBy(hostLife, "start")) = 1

\* C20 as stated: once a stop() call has set running_ to false on a pipeline
\* whose encode thread was started, the encode thread leaves encodeLoop and
\* that stop() call returns, in every fair schedule, whether or not another
\* frame is captured.
C20_SenderStopTerminates ==
    \A c \in Callers :
        (hostLife.stop[c] = "notify" /\ hostLife.encodeThread # "unborn")
            ~> (hostLife.stop[c] = "done" /\ hostLife.encodeThread = "exited")

-----------------------------------------------------------------------------
(* Properties of the join stop exercise (SpecJoinStop) *)

\* the stop() calls that entered the teardown
JoinTeardowns == {k \in 1..Len(joinLife.stopCalls) : joinLife.stopCalls[k].won}

\* C14 as stated: however the stop() calls of start()'s exit path, of
\* BridgeManager and of the destructor repeat and interleave, at most one of
\* them performs the teardown, and neither decodeThread_.join() nor
\* bufferThread_.join() is called by two callers.
C14_JoinStopOnce ==
    /\ Cardinality(JoinTeardowns) <= 1
    /\ Cardinality(Range(joinLife.joinsDecode)) <= 1
    /\ Cardinality(Range(joinLife.joinsBuffer)) <= 1

-----------------------------------------------------------------------------
(* Properties of the encoder exercise (SpecEncoder) *)

\* the NAL units nals behind start codes of 3 or of 4 bytes
StartCodeDelimited(nals) == {Framed(nals, "AnnexB3"), Framed(nals, "AnnexB4")}

\* the EncodedFrame is the packet's NAL units behind start codes, after
\* `00 00 00 01 SPS 00 00 00 01 PPS` if and only if the packet is a keyframe
WellFormed(e) ==
    /\ e.frame.isKeyframe = e.packet.key
    /\ \E units \in StartCodeDelimited(e.packet.nals) :
          e.frame.data = IF e.packet.key
                         THEN StartCode4 \o SPS \o StartCode4 \o PPS \o units
                         ELSE units

\* C18 as stated: whether the codec's extradata is an avcC record or in
\* Annex-B form, and whether its packets are length-prefixed or in Annex-B
\* form, an emitted keyframe is `00 00 00 01 SPS 00 00 00 01 PPS` followed by
\* the start-code-delimited IDR NAL unit, and an emitted non-keyframe is the
\* start-code-delimited NAL unit alone.
C18_KeyframePrepending == has_value(emitted) => WellFormed(value_of(emitted))

\* the positions of the call history that are frames handed to the codec
FramePositions == {p \in 1..Len(encoderCalls) : IsSubmitted(encoderCalls[p])}

Largest(S) == IF S = {} THEN 0 ELSE CHOOSE x \in S : \A y \in S : y <= x

\* the calls with an operation of ops made between the submitted frame
\* before position p and position p
CallsSincePreviousFrame(p, ops) ==
    {q \in (Largest({f \in FramePositions : f < p}) + 1)..(p - 1) : encoderCalls[q].op \in ops}

\* the number of frames submitted before position p since configure() or,
\* if later, since the last call with an operation of restarts
IndexAt(p, restarts) ==
    LET last == Largest({q \in 1..(p - 1) : encoderCalls[q].op \in restarts})
    IN  Cardinality({f \in FramePositions : last < f /\ f < p})

\* the cadence of the keyframe requests, where the calls in forcing force a
\* keyframe and the calls in restarts restart the frame index
Cadence(forcing, restarts) ==
    LET K == encoder.config_.keyframeInterval
    IN  /\ \A p \in FramePositions :
              encoderCalls[p].keyframe <=>
                  \/ IndexAt(p, restarts) % K = 0
                  \/ CallsSincePreviousFrame(p, forcing) # {}
        /\ \A i \in 1..(Len(Submitted) - K + 1) :
              \E k \in i..(i + K - 1) : Submitted[k].keyframe

\* C19 as stated: the first frame submitted after configure() is requested
\* as a keyframe, and so is every frame whose index since configuration is a
\* multiple of keyframeInterval and the frame that follows a forceKeyframe()
\* call, and no other; any keyframeInterval consecutive frames hold a
\* keyframe request.
C19_Original == Cadence({"forceKeyframe"}, {})

\* C19 amended: the index counts from configure() or the last reset(), and
\* reset() forces a keyframe as forceKeyframe() does.
C19_KeyframeCadence == Cadence({"forceKeyframe", "reset"}, {"reset"})

\* ten frames at keyframeInterval 5, with keyframes at indices 0 and 5 and a
\* forced one in between
C19_Witness ==
    /\ encoder.config_.keyframeInterval = 5
    /\ Len(Submitted) = 10
    /\ Submitted[1].keyframe /\ Submitted[6].keyframe
    /\ \E k \in {2, 3, 4, 5} : Submitted[k].keyframe
    /\ \E q \in 1..Len(encoderCalls) : encoderCalls[q].op = "forceKeyframe"

-----------------------------------------------------------------------------
(* Properties of the queue exercise (SpecQueue) *)

\* C9: drop-oldest queues. Each queue holds at most its capacity N (3 for the
\* encode queue, 90 for the decode queue); a producer callback that finds the
\* queue at N removes exactly the head, increments that queue's drop counter
\* by exactly 1 and pushes the new element at the tail, so the size stays N;
\* a producer callback that finds the queue below N only appends.
C9_DropOldestQueue ==
    [][/\ Len(host.frameQueue_') <= MAX_QUEUE_SIZE
       /\ Len(join.decodeQueue_') <= MAX_DECODE_QUEUE
       /\ (/\ host.videoFramesReceived_' = host.videoFramesReceived_ + 1
           /\ Len(host.frameQueue_) = MAX_QUEUE_SIZE) =>
             /\ host.frameQueue_' =
                  Append(Tail(host.frameQueue_), NDIVideoFrame(host.videoFramesReceived_'))
             /\ host.videoFramesDropped_' = host.videoFramesDropped_ + 1
             /\ Len(host.frameQueue_') = MAX_QUEUE_SIZE
       /\ (/\ host.videoFramesReceived_' = host.videoFramesReceived_ + 1
           /\ Len(host.frameQueue_) < MAX_QUEUE_SIZE) =>
             /\ host.frameQueue_' =
                  Append(host.frameQueue_, NDIVideoFrame(host.videoFramesReceived_'))
             /\ host.videoFramesDropped_' = host.videoFramesDropped_
       /\ (/\ join.videoFramesReceived_' = join.videoFramesReceived_ + 1
           /\ Len(join.decodeQueue_) = MAX_DECODE_QUEUE) =>
             /\ Tail(join.decodeQueue_) =
                  SubSeq(join.decodeQueue_', 1, MAX_DECODE_QUEUE - 1)
             /\ join.decodeQueue_'[MAX_DECODE_QUEUE].sequenceNumber
                  = Num(join.videoFramesReceived_', 4)
             /\ join.videoFramesDroppedQueue_' = join.videoFramesDroppedQueue_ + 1
             /\ Len(join.decodeQueue_') = MAX_DECODE_QUEUE
       /\ (/\ join.videoFramesReceived_' = join.videoFramesReceived_ + 1
           /\ Len(join.decodeQueue_) < MAX_DECODE_QUEUE) =>
             /\ join.decodeQueue_ =
                  SubSeq(join.decodeQueue_', 1, Len(join.decodeQueue_))
             /\ Len(join.decodeQueue_') = Len(join.decodeQueue_) + 1
             /\ join.decodeQueue_'[Len(join.decodeQueue_')].sequenceNumber
                  = Num(join.videoFramesReceived_', 4)
             /\ join.videoFramesDroppedQueue_' = join.videoFramesDroppedQueue_]_vars

C9_Witness ==
    /\ join.videoFramesDroppedQueue_ = 1
    /\ Len(join.decodeQueue_) = MAX_DECODE_QUEUE
    /\ join.decodeQueue_[1].sequenceNumber = Num(2, 4)
    /\ join.decodeQueue_[MAX_DECODE_QUEUE].sequenceNumber = Num(MAX_DECODE_QUEUE + 1, 4)


-----------------------------------------------------------------------------
(* Receiver stop and the receive thread                                    *)

\* the threads of the receiver pipeline that have been started have exited
JoinThreadsExited ==
    /\ joinLife.decodeThread = "exited"
    /\ joinLife.networkReceiver_.receiveThread = "exited"
    /\ joinLife.bufferThread \in {"unborn", "exited"}

\* C21 - Receiver stop terminates: once a JoinMode::stop() call has found
\* the pipeline running, the playout thread, the receive thread and the
\* decode thread each eventually exit and the call eventually returns.
C21_ReceiverStopTerminates ==
    \A c \in Callers :
       (joinLife.stop[c] = "setRunning") ~> (joinLife.stop[c] = "done" /\ JoinThreadsExited)

\* C22 - The receive thread survives errors: while stop has not been
\* requested, a failed poll or recvfrom does not end the receive loop, so
\* isListening() = true implies that the receive thread is running.
C22_ReceiveThreadSurvives ==
    LET R == joinLife.networkReceiver_
    IN  (R.listening_ /\ ~R.shouldStop_) => R.receiveThread # "exited"

-----------------------------------------------------------------------------
(* Emissions and drops per sequence number (SpecReasm)                     *)

\* the addPacket calls that returned a completed frame of sequence seq
EmissionsOf(seq) ==
    {j \in 1..Len(rets) : has_value(rets[j])
                          /\ value_of(rets[j]).sequenceNumber = Num(seq, 4)}

\* C23 - At most one emission per sequence number: whatever fragments are
\* passed to addPacket, duplicates and duplicates after completion
\* included, a completed frame is returned at most once for a sequenceNumber.
C23_AtMostOneEmission ==
    \A seq \in {SeqA, SeqB} : Cardinality(EmissionsOf(seq)) <= 1

\* the last addPacket call counted the pending frame as dropped
DroppedByLastCall ==
    /\ Len(calls) > 0
    /\ \/ reassembler.stats_.framesDropped > prev.stats_.framesDropped
       \/ reassembler.stats_.totalFragmentsReceivedBeforeDrop
             > prev.stats_.totalFragmentsReceivedBeforeDrop
       \/ reassembler.stats_.totalFragmentsExpectedBeforeDrop
             > prev.stats_.totalFragmentsExpectedBeforeDrop

\* C28 - A completed sequence is never counted as dropped: an addPacket
\* call that increases framesDropped or the fragments-before-drop totals
\* does so for a pending frame whose sequenceNumber was never returned as a
\* completed frame.
C28_CompletedNeverDropped ==
    DroppedByLastCall =>
       \A seq \in {SeqA, SeqB} :
          value_of(prev.pending_).sequenceNumber = Num(seq, 4) => EmissionsOf(seq) = {}

-----------------------------------------------------------------------------
(* Coverage of completed frames (SpecForged)                               *)

\* the header of the datagram of the last addPacket call
LastHeader ==
    LET data == pool.packets[calls[Len(calls)]]
    IN  value_of(deserialize(data, Len(data)))

\* the totalSize of the pending frame the last call worked on: that of the
\* header that opened the frame
LastTotalSize ==
    IF has_value(prev.pending_)
       /\ value_of(prev.pending_).sequenceNumber = LastHeader.sequenceNumber
    THEN ToInt(value_of(prev.pending_).totalSize)
    ELSE ToInt(LastHeader.totalSize)

\* C29 - Completed frames are fully covered: for headers that pass isValid,
\* addPacket never writes outside the pending frame's buffer (the buffer
\* keeps its totalSize bytes), and a completed frame has exactly totalSize
\* bytes, each copied from a received payload (payload bytes are non-zero
\* here, the buffer starts zero-filled).
C29_CompletedFullyCovered ==
    /\ has_value(reassembler.pending_) =>
          Len(value_of(reassembler.pending_).data)
             = ToInt(value_of(reassembler.pending_).totalSize)
    /\ (Len(calls) > 0 /\ has_value(LastRet)) =>
          /\ Len(value_of(LastRet).data) = LastTotalSize
          /\ \A i \in 1..Len(value_of(LastRet).data) : value_of(LastRet).data[i] # 0

-----------------------------------------------------------------------------
(* The playout anchor (SpecAnchor)                                         *)

\* the writes made to a field of the anchor, as indices of threads.writes
AnchorWritesTo(field) == {k \in 1..Len(threads.writes) : threads.writes[k].field = field}

\* C24 - Playout anchor is set exactly once: in buffered mode each of
\* firstFrameTimestamp_ and bufferStartTime_ is written at most once, by
\* the first frame to arrive, and once the anchor is set (bufferSynced_)
\* both fields have been written, come from that frame and stay as
\* written, under every interleaving of the two threads.
C24_AnchorSetOnce ==
    /\ \A field \in {"firstFrameTimestamp_", "bufferStartTime_"} :
          /\ Cardinality(AnchorWritesTo(field)) <= 1
          /\ \A k \in AnchorWritesTo(field) :
                /\ threads.writes[k].by = threads.arrivals[1].by
                /\ threads.writes[k].frame = threads.arrivals[1].timestamp
    /\ join.bufferSynced_ =>
          /\ AnchorWritesTo("firstFrameTimestamp_") # {}
          /\ AnchorWritesTo("bufferStartTime_") # {}
          /\ join.firstFrameTimestamp_ = threads.arrivals[1].timestamp
          /\ \A k \in AnchorWritesTo("bufferStartTime_") :
                join.bufferStartTime_ = threads.writes[k].value

-----------------------------------------------------------------------------
(* Delivery of buffered frames (FairJoin)                                  *)

\* the timestamps of the frames the sender may send
SentTimestamps == {Num(FrameTimestamp(n), 8) : n \in 0..MaxSends}

\* a frame with this timestamp waits in a playout buffer
IsBuffered(timestamp) == \E i \in 1..Len(Buffered) : Buffered[i].timestamp = timestamp

\* a frame with this timestamp has been delivered to the sink
IsPlayed(timestamp) ==
    \/ \E i \in 1..Len(sink.video) : sink.video[i] = timestamp
    \/ \E i \in 1..Len(sink.audio) : sink.audio[i] = timestamp

\* C25 - Every buffered frame is eventually played: in buffered mode, with
\* the pipeline and the sink running, a frame that waits in a playout
\* buffer is eventually delivered to the sink and no frame waits in a
\* buffer forever.
C25_BufferedEventuallyPlayed ==
    /\ \A timestamp \in SentTimestamps : IsBuffered(timestamp) ~> IsPlayed(timestamp)
    /\ (Buffered # <<>>) ~> (Buffered = <<>>)

-----------------------------------------------------------------------------
(* Sequence numbers under concurrency (SpecSeq)                            *)

\* C26 - Fresh sequence numbers under concurrency: the sendVideo and
\* sendAudio calls made on one connected sender, concurrent ones included,
\* get pairwise different sequence numbers; every fragment of a frame
\* carries the number of its call; and each increment moves the counter
\* forward by one modulo 2^32.
C26_FreshSequenceNumbers ==
    /\ \A j, k \in 1..Len(threads.calls) :
          j # k => threads.calls[j].seqNum # threads.calls[k].seqNum
    /\ \A k \in 1..Len(channel) :
          HeaderOf(channel[k]).sequenceNumber = threads.calls[channel[k].of].seqNum
    /\ \A k \in 1..Len(threads.calls) :
          /\ SubDigits(threads.calls[k].seqNum, threads.calls[k].before, 4, 0) = Num(1, 4)
          /\ k > 1 => threads.calls[k].before = threads.calls[k - 1].seqNum
    /\ threads.calls # <<>> =>
          sender.sequenceNumber_ = threads.calls[Len(threads.calls)].seqNum

\* both threads are inside their fragment loops, the video frame between its
\* two fragments, after the counter has wrapped
C26_Witness ==
    /\ threads.pc["capture"] = "loop"
    /\ threads.pc["encode"] = "loop"
    /\ threads.i["encode"] = 1
    /\ Len(threads.calls) = 4
    /\ threads.calls[3].seqNum = Num(1, 4)
    /\ threads.calls[1].seqNum = <<255, 255, 255, 255>>
    /\ threads.calls[3].by = "capture"

-----------------------------------------------------------------------------
(* Wire invariants of the emitted fragments (SpecSizes)                    *)

\* the header a datagram of the frame-size exercise carries
WireHeader(d) == value_of(deserialize(d.header, HEADER_SIZE))

RECURSIVE PayloadSum(_)
PayloadSum(wire) ==
    IF wire = <<>> THEN 0 ELSE ToInt(WireHeader(Head(wire)).payloadSize) + PayloadSum(Tail(wire))

\* the wire invariants for the datagrams of one call
WireInvariants(call, mtu) ==
    LET P == mtu - HEADER_SIZE
    IN  /\ \A k \in 1..Len(call.wire) :
              LET d == call.wire[k]
                  h == WireHeader(d)
              IN  /\ h.magic = PROTOCOL_MAGIC
                  /\ h.version = PROTOCOL_VERSION
                  /\ ToInt(h.fragmentIndex) < ToInt(h.fragmentCount)
                  /\ ToInt(h.payloadSize) <= P
                  /\ ToInt(h.payloadSize) = d.size - HEADER_SIZE
                  /\ h.sequenceNumber = Num(call.seqNum, 4)
                  /\ h.timestamp = call.frame.timestamp
                  /\ ToInt(h.totalSize) = call.size
                  /\ h.fragmentCount = WireHeader(call.wire[1]).fragmentCount
                  /\ ToInt(h.fragmentIndex) = k - 1
                  /\ d.offset = (k - 1) * P
                  /\ d.offset + ToInt(h.payloadSize) <= call.size
        /\ PayloadSum(call.wire) = call.size

\* C27 - Wire invariants of emitted fragments: every datagram of sendVideo
\* / sendAudio carries the magic and version, fragmentIndex < fragmentCount,
\* payloadSize <= MTU - 38 and equal to the datagram length minus 38; the
\* fragments of a frame agree on sequenceNumber, timestamp, totalSize and
\* fragmentCount, fragment i carries the bytes from i * P, and the
\* payloadSizes of a frame sum to totalSize, for every frame size.
C27_WireInvariants ==
    \A c \in 1..Len(sent) : sent[c].ok => WireInvariants(sent[c], sender.config_.mtu)

-----------------------------------------------------------------------------
(* Lazy encoder configuration *)

ConfigureCalls == {k \in 1..Len(encoderCalls) : encoderCalls[k].op = "configure"}

\* C30: configure() is invoked exactly once, on the first frame the encode
\* thread dequeues, with keyframeInterval = fps and, where the frame carries
\* a frame rate, fps = frameRateN / frameRateD; every later frame goes
\* straight to encode without another configure() call
C30_ConfigureOnce ==
    encoderCalls # <<>> =>
        /\ ConfigureCalls = {1}
        /\ encoderCalls[1].keyframeInterval = encoderCalls[1].fps
        /\ (encoderCalls[1].frame.frameRateN > 0 /\ encoderCalls[1].frame.frameRateD > 0)
              => encoderCalls[1].fps * encoderCalls[1].frame.frameRateD
                    <= encoderCalls[1].frame.frameRateN
                 /\ encoderCalls[1].frame.frameRateN
                    < (encoderCalls[1].fps + 1) * encoderCalls[1].frame.frameRateD
        /\ \A k \in 2..Len(encoderCalls) :
              /\ encoderCalls[k].op = "encode"
              /\ encoderCalls[k].keyframeInterval = encoderCalls[1].keyframeInterval

\* C31: once configure() has failed, the orchestrator keeps running and
\* keeps accepting captured frames, but no video frame is encoded for the
\* remainder of the run: videoFramesEncoded stays 0
C31_ConfigureFailureTerminal ==
    FailedConfigures > 0 =>
        /\ host.running_
        /\ host.videoFramesEncoded_ = 0
        /\ \A k \in 1..Len(encoderCalls) : encoderCalls[k].op # "encode"

-----------------------------------------------------------------------------
(* A start() that fails *)

\* start() returned from a failing ndiSender_->start / startListening: the
\* decode thread was created and the main loop was never entered
StartFailed ==
    /\ joinLife.start = "returned"
    /\ joinLife.decodeThread # "unborn"
    /\ joinLife.stop["start"] = "idle"

\* C32: when start() has failed after the decode thread was started and
\* the destructor's stop() has run, the decode thread has terminated and
\* been joined and decodeRunning_ is false
C32_FailedStartLeavesNoWorker ==
    (StartFailed /\ joinLife.stop["destructor"] = "done") =>
        /\ joinLife.decodeThread = "exited"
        /\ ~joinLife.decodeJoinable
        /\ ~joinLife.decodeRunning_

-----------------------------------------------------------------------------
(* Decoder readiness *)

\* the last configure() or reset() call of the history, or 0
LastRestart ==
    LET R == {k \in 1..Len(decoderCalls) : decoderCalls[k].op # "decode"}
    IN  IF R = {} THEN 0 ELSE CHOOSE k \in R : \A j \in R : j <= k

\* a NAL unit of the type was passed to decode() in the calls after call k
\* up to call n
ObservedIn(type, k, n) ==
    \E j \in (k + 1)..n :
        /\ decoderCalls[j].op = "decode"
        /\ type \in Range(decoderCalls[j].types)

Observed(type) == ObservedIn(type, LastRestart, Len(decoderCalls))

\* C33: after configure() or reset(), the decoder is ready as soon as an
\* SPS and a PPS have each been observed, in whatever order and whether in
\* the same or in different access units
C33_ReadyOnceBothObserved ==
    (decoder.configured_ /\ Observed(NAL_TYPE_SPS) /\ Observed(NAL_TYPE_PPS))
        => decoder.decoderReady_

\* C34: a decode() call that leaves the decoder not ready passes nothing to
\* the codec, makes no onDecodedFrame call, counts no decode error and
\* returns true; a decoder is ready only after both parameter sets were
\* observed, and a ready decoder stays ready over every decode() call
C34_NoOutputBeforeReady ==
    /\ \A k \in 1..Len(decoderCalls) :
          LET call == decoderCalls[k]
          IN  /\ (call.op = "decode" /\ ~call.ready) =>
                    (~call.sent /\ call.frames = 0 /\ call.errors = 0 /\ call.ret)
              /\ (call.op = "decode" /\ k > 1 /\ decoderCalls[k - 1].ready) => call.ready
              /\ call.op # "decode" => ~call.ready
    /\ decoder.decoderReady_ =>
          (Observed(NAL_TYPE_SPS) /\ Observed(NAL_TYPE_PPS))
    /\ decoderCalls # <<>> =>
          decoder.decoderReady_ = decoderCalls[Len(decoderCalls)].ready

\* a stream joined in the middle: a slice is discarded, then the parameter
\* sets arrive and the next unit reaches the codec and comes out
C34_Witness ==
    /\ Len(decoderCalls) = 4
    /\ decoderCalls[2].op = "decode" /\ ~decoderCalls[2].ready
    /\ decoderCalls[2].types = <<1>>
    /\ decoderCalls[3].op = "decode" /\ decoderCalls[3].ready
    /\ decoderCalls[4].op = "decode" /\ decoderCalls[4].frames = 1

-----------------------------------------------------------------------------
(* Independence of the two streams *)

\* the header of the datagram of the last processPacket call
LastDatagramHeader ==
    LET d == value_of(datagram) IN value_of(deserialize(d.bytes, Len(d.bytes)))

\* the last processPacket call left the named reassembler and the frame
\* count of its media type as they were
Untouched(reassembler_, framesReceived) ==
    LET d == value_of(datagram)
    IN  /\ receiver[reassembler_] = d.before[reassembler_]
        /\ receiver.stats_[framesReceived] = d.before.stats_[framesReceived]

\* C35: processing a datagram of one media type changes neither the
\* reassembler of the other type (pending frame and counters) nor the
\* frames emitted for it, and every callback it makes is of its own type
C35_StreamsIndependent ==
    has_value(datagram) =>
        LET d == value_of(datagram)
            made == Len(callbacks.video) + Len(callbacks.audio) - d.delivered
        IN  IF isVideo(LastDatagramHeader)
            THEN /\ Untouched("audioReassembler_", "audioFramesReceived")
                 /\ made = receiver.stats_.videoFramesReceived
                              - d.before.stats_.videoFramesReceived
            ELSE /\ Untouched("videoReassembler_", "videoFramesReceived")
                 /\ made = receiver.stats_.audioFramesReceived
                              - d.before.stats_.audioFramesReceived

\* video frame 3 arrives and is emitted while audio frame 2 and video
\* frame 1 are pending, each with one of its two fragments
C35_Witness ==
    /\ has_value(datagram)
    /\ isVideo(LastDatagramHeader)
    /\ ToInt(LastDatagramHeader.sequenceNumber) = 3
    /\ has_value(value_of(datagram).before.videoReassembler_.pending_)
    /\ has_value(receiver.audioReassembler_.pending_)
    /\ Len(callbacks.video) = 1
    /\ receiver.videoReassembler_.stats_.framesDropped = 1
    /\ receiver.audioReassembler_.stats_.framesDropped = 0

-----------------------------------------------------------------------------
(* The threads on the send path *)

\* the threads inside sendVideo / sendAudio
InSendPath == {t \in SeqThreads : threads.pc[t] \in {"increment", "loop"}}

\* C36: every datagram is sent by the encode thread, and two threads are
\* never inside NetworkSender's send path at once
C36_SendsOnEncodeThread ==
    /\ \A k \in 1..Len(channel) : threads.calls[channel[k].of].by = "encode"
    /\ Cardinality(InSendPath) <= 1

-----------------------------------------------------------------------------
(* The threads that touch the reassembler *)

\* C37: while the receive thread runs, no other thread accesses the
\* reassemblers concurrently: the pipeline thread is never inside
\* getVideoReassemblerStats while the receive thread is inside addPacket,
\* and every copy of the statistics it takes is a value they have held
C37_ReassemblerConfined ==
    /\ ~(threads.pc.receive = "addPacket" /\ threads.pc.main = "copy")
    /\ \A k \in 1..Len(threads.snapshots) : threads.snapshots[k] \in threads.held

-----------------------------------------------------------------------------
(* Properties of the queue accounting exercise (SpecAccount) *)

\* the encode thread took the frames in capture order
InCaptureOrder ==
    \A i, j \in 1..Len(threads.dequeued) :
        i < j => threads.dequeued[i].timestamp < threads.dequeued[j].timestamp

\* frames taken by the encode thread + frames dropped + frames queued
Accounted ==
    Len(threads.dequeued) + host.videoFramesDropped_ + Len(host.frameQueue_)

\* C38 as stated: in every reachable state the sender frame queue holds at
\* most 3 frames, videoFramesReceived equals the frames dequeued by the
\* encode thread plus videoFramesDropped plus the queue length, and frames
\* leave the queue towards the encoder in capture order.
C38_Original ==
    /\ Len(host.frameQueue_) <= MAX_QUEUE_SIZE
    /\ host.videoFramesReceived_ = Accounted
    /\ InCaptureOrder

\* C38, amended: the queue holds at most 3 frames and frames leave it in
\* capture order in every reachable state; videoFramesReceived equals
\* dequeued + dropped + queue length whenever the capture thread is outside
\* onVideoFrame, and exceeds that sum by exactly 1 between the increment of
\* videoFramesReceived and the push under the queue mutex.
C38_QueueAccounting ==
    /\ Len(host.frameQueue_) <= MAX_QUEUE_SIZE
    /\ InCaptureOrder
    /\ threads.pc = "idle" => host.videoFramesReceived_ = Accounted
    /\ threads.pc = "counted" => host.videoFramesReceived_ = Accounted + 1

\* a full queue after a drop and a dequeue, the capture thread between the
\* increment and the push
C38_Witness ==
    /\ threads.pc = "counted"
    /\ Len(host.frameQueue_) = MAX_QUEUE_SIZE
    /\ host.videoFramesDropped_ >= 1
    /\ Len(threads.dequeued) >= 1

-----------------------------------------------------------------------------
(* Fragment count arithmetic (SpecSizes) *)

\* n is the least number of fragments of P bytes that hold totalSize bytes
IsCeiling(n, totalSize, P) ==
    /\ n * P >= totalSize
    /\ n > 0 => (n - 1) * P < totalSize

\* C39: calculateFragmentCount(totalSize) equals ceil(totalSize / (MTU - 38))
\* for every 32-bit totalSize: the 16-bit result never wraps or truncates,
\* and it is 0 only for totalSize = 0.  Stated for the size of every frame
\* handed to sendVideo / sendAudio.
C39_FragmentCountArithmetic ==
    \A c \in 1..Len(sent) :
        LET n == calculateFragmentCount(sent[c].size)
        IN  /\ IsCeiling(n, sent[c].size, sender.config_.mtu - HEADER_SIZE)
            /\ n = 0 <=> sent[c].size = 0

-----------------------------------------------------------------------------
(* Quiescence after stop (SpecHostStop, SpecJoinStop) *)

\* a stop() call of caller c that entered the teardown has returned
TornDown(L, c) ==
    /\ CallsBy(L, c) # {}
    /\ L.stop[c] = "done"
    /\ L.stopCalls[CurrentCall(L, c)].won

\* C40: when the tearing-down call of HostMode::stop() or JoinMode::stop()
\* has returned, every worker thread of that pipeline (capture and encode
\* threads; decode and playout threads) has terminated and been joined, so
\* that no callback into the orchestrator runs after that point.
C40_QuiescenceAfterStop ==
    \A c \in Callers :
        /\ TornDown(hostLife, c) =>
              /\ hostLife.encodeThread \in {"unborn", "exited"}
              /\ ~hostLife.joinable
              /\ ~hostLife.receiving
        /\ TornDown(joinLife, c) =>
              /\ joinLife.decodeThread \in {"unborn", "exited"}
              /\ ~joinLife.decodeJoinable
              /\ joinLife.bufferThread \in {"unborn", "exited"}
              /\ ~joinLife.bufferJoinable

=============================================================================
